---- MODULE Spec2Model ----
(***************************************************************************)
(* Commentary pipeline of olympics-tv: the commentary table, the post-event *)
(* orchestrator (pipeline_orchestrator.py), the pre-event orchestrator      *)
(* (intro_orchestrator.py), the two-agent editors and the Scheduler         *)
(* (commentary_scheduler.py).                                               *)
(*                                                                          *)
(* Texts are sequences of tokens; the token "---" stands for the literal    *)
(* separator and " " for a run of whitespace.  Costs are integers in units  *)
(* of 1e-4 dollar (what round(cost, 4) keeps).  Every collaborator (search, *)
(* page fetch, text generator) is a nondeterministic choice of its outcome. *)
(***************************************************************************)
EXTENDS Integers, Sequences, FiniteSets, TLC

VARIABLES
    commentary,   \* the commentary table: a sequence of rows, in insertion order
    pc,           \* per run: the blocking call the run is waiting in
    job,          \* per run: which driver started it, its pending list, current event
    loc,          \* per run: the locals of the process_event call in progress
    obs,          \* per run: what the current process_event call has done so far
    tally,        \* per run: the success / failed counters of the batch loop
    invocations,  \* number of process_event calls started so far
    scraper,      \* the locals of a scrape_for_event call followed step by step
    resolver,     \* a resolve_sources call and what is built from its output
    editor,       \* an edit_commentary / edit_intro call followed pass by pass
    schedule,     \* the schedule_units table: event_unit_code -> row
    writes        \* per run: a status write followed statement by statement

vars == <<commentary, pc, job, loc, obs, tally, invocations, scraper, resolver, editor, schedule, writes>>

-----------------------------------------------------------------------------
(* Bounds *)

MaxInvocations == 2
\* queries in a resolver output
MaxQueries == 5

-----------------------------------------------------------------------------
(* The world the pipeline runs in *)

Runs == {"r1", "r2"}

\* unit names, character by character; NoName is a NULL event_unit_name
NoName == <<>>
Final == <<"F", "i", "n", "a", "l">>
\* a schedule_units row; start_time is in days from the first day, window
\* says where it lies relative to NOW()
Unit(medal_flag, start_time, window, has_results, unit_name) == [medal_flag |-> medal_flag, start_time |-> start_time, window |-> window, has_results |-> has_results, unit_name |-> unit_name]
\* E1: finished medal event with results, started in the last 24 hours.
\* E2: upcoming event starting in the next 24 hours.
BaseSchedule ==
    [e \in {"E1", "E2"} |-> IF e = "E1" THEN Unit(1, 1, "last24h", TRUE, Final)
                                       ELSE Unit(0, 2, "next24h", FALSE, Final)]
ScheduleUnits == DOMAIN schedule
\* an event code that is in no schedule_units row
UnknownCode == "EX"
HasResults(e) == e \in ScheduleUnits /\ schedule[e].has_results
\* results rows; "" is a NULL text column, 0 a NULL position
ResultRow(noc, position, medal_type, wlt) == [noc |-> noc, position |-> position, medal_type |-> medal_type, wlt |-> wlt]
\* the rows of E1 as the resolver reads them: gold and silver for JPN, bronze for USA
Results(e) ==
    IF HasResults(e)
    THEN <<ResultRow("JPN", 1, "ME_GOLD", ""), ResultRow("JPN", 2, "ME_SILVER", ""),
           ResultRow("USA", 3, "ME_BRONZE", "")>>
    ELSE <<>>
StartedInLast24h(e) == schedule[e].window = "last24h"
StartsInNext24h(e) == schedule[e].window = "next24h"
MedalFlag(e) == schedule[e].medal_flag
StartTime(e) == schedule[e].start_time
UnitName(e) == schedule[e].unit_name

CommentaryTypes == {"post_event", "pre_event"}

\* the arguments process_event is called with directly: event code and
\* commentary_type for pipeline_orchestrator, an existing event for intro_orchestrator
ManualPostInputs == {<<"E1", "post_event">>, <<"E1", "pre_event">>, <<UnknownCode, "post_event">>}
ManualPreInputs == {"E2"}

-----------------------------------------------------------------------------
(* Values *)

None == [none |-> TRUE]
NULL == <<"<NULL>">>
NullMsg == [text |-> "<NULL>", len |-> 0]
Msg(t, n) == [text |-> t, len |-> n]
\* Python truthiness of an error_message argument
Truthy(m) == m # NullMsg /\ m.len > 0
EmptyDict == [k \in {} |-> 0]
Get(d, k, default) == IF k \in DOMAIN d THEN d[k] ELSE default

\* json.dumps(x): a column holding serialized data is never equal to NULL
json_dumps(x) == <<"json", x>>

Sep == "---"
WS == " "

RECURSIVE LStrip(_)
LStrip(s) == IF s # <<>> /\ Head(s) = WS THEN LStrip(Tail(s)) ELSE s
RECURSIVE RStrip(_)
RStrip(s) == IF s # <<>> /\ s[Len(s)] = WS THEN RStrip(SubSeq(s, 1, Len(s) - 1)) ELSE s
Strip(s) == RStrip(LStrip(s))

Contains(s, t) == \E i \in 1..Len(s) : s[i] = t
FirstIndex(s, t) == CHOOSE i \in 1..Len(s) : s[i] = t /\ \A j \in 1..(i - 1) : s[j] # t
LastIndex(s, t) == CHOOSE i \in 1..Len(s) : s[i] = t /\ \A j \in (i + 1)..Len(s) : s[j] # t
\* a split at the last separator
SplitOnce_at_last(s, t) ==
    <<SubSeq(s, 1, LastIndex(s, t) - 1), SubSeq(s, LastIndex(s, t) + 1, Len(s))>>
\* str.split(sep, 1) on a text that contains sep
SplitOnce(s, t) == <<SubSeq(s, 1, FirstIndex(s, t) - 1), SubSeq(s, FirstIndex(s, t) + 1, Len(s))>>

\* round(x, 0) of n / d, half to even
RoundDiv(n, d) ==
    LET q == n \div d
        r == n % d
    IN IF 2 * r < d THEN q
       ELSE IF 2 * r > d THEN q + 1
       ELSE IF q % 2 = 0 THEN q ELSE q + 1

\* cost = (input * 3 + output * 15) / 1_000_000, rounded to 4 decimals
EstimatedCost(input_tokens, output_tokens) ==
    RoundDiv(input_tokens * 3 + output_tokens * 15, 100)

-----------------------------------------------------------------------------
(* Collaborator outcomes *)

WriterTexts == {<<"a">>, <<"b">>}
VerifierTexts == {<<"c">>, <<"i", WS, Sep, WS, "c", Sep, "d">>}
ProseTexts == {<<"p">>}
\* the token counts the provider reports for a generated text
InputTokens(t) == 1234 + 250 * Len(t)
OutputTokens(t) == 567 * Len(t) + (IF t[1] = "a" THEN 90 ELSE 0)
ExceptionMessages == {Msg("", 0), Msg("traceback", 600)}

Article(i) == [url |-> i, domain |-> i, title |-> i, query_type |-> "general"]
ScrapeOutcomes == {<<>>, <<Article(1)>>}

-----------------------------------------------------------------------------
(* The commentary table *)

\* an insert that leaves the status to a column default
NewRow_default_status(e, ct, status) ==
    [event_unit_code |-> e, commentary_type |-> ct, status |-> "pending",
     error_message |-> NullMsg, content |-> NULL, proofed_content |-> NULL,
     sources |-> NULL, consolidated_text |-> NULL, corrections |-> NULL,
     llm_model |-> "<NULL>", prompt_version |-> "<NULL>",
     input_tokens |-> -1, output_tokens |-> -1, estimated_cost |-> -1]

\* INSERT INTO commentary (event_unit_code, commentary_type, status, ...)
NewRow(e, ct, status) ==
    [event_unit_code |-> e, commentary_type |-> ct, status |-> status,
     error_message |-> NullMsg, content |-> NULL, proofed_content |-> NULL,
     sources |-> NULL, consolidated_text |-> NULL, corrections |-> NULL,
     llm_model |-> "<NULL>", prompt_version |-> "<NULL>",
     input_tokens |-> -1, output_tokens |-> -1, estimated_cost |-> -1]

Matches(row, e, ct) == row.event_unit_code = e /\ row.commentary_type = ct

\* SELECT ... WHERE event_unit_code = e AND commentary_type = ct
Select(tbl, e, ct) == {i \in 1..Len(tbl) : Matches(tbl[i], e, ct)}

\* UPDATE commentary SET <changes> WHERE event_unit_code = e AND commentary_type = ct
Update(tbl, e, ct, changes) ==
    [i \in 1..Len(tbl) |->
        IF Matches(tbl[i], e, ct)
        THEN [f \in DOMAIN tbl[i] |-> IF f \in DOMAIN changes THEN changes[f] ELSE tbl[i][f]]
        ELSE tbl[i]]

\* update_commentary_status without the look-up: every status write inserts
update_commentary_status_insert_only(tbl, event_unit_code, status, error_message, commentary_type) ==
    Append(tbl, NewRow(event_unit_code, commentary_type, status))

\* a status write that also resets the texts of the row
update_commentary_status_clearing(tbl, event_unit_code, status, error_message, commentary_type) ==
    IF Select(tbl, event_unit_code, commentary_type) # {}
    THEN Update(tbl, event_unit_code, commentary_type,
                [status |-> status, error_message |-> error_message,
                 content |-> NULL, proofed_content |-> NULL])
    ELSE Append(tbl, NewRow(event_unit_code, commentary_type, status))

\* pipeline_orchestrator.update_commentary_status
update_commentary_status(tbl, event_unit_code, status, error_message, commentary_type) ==
    LET existing == Select(tbl, event_unit_code, commentary_type) # {}
    IN IF existing
       THEN IF Truthy(error_message)
            THEN Update(tbl, event_unit_code, commentary_type,
                        [status |-> status, error_message |-> error_message])
            ELSE Update(tbl, event_unit_code, commentary_type, [status |-> status])
       ELSE Append(tbl, NewRow(event_unit_code, commentary_type, status))

\* a status write that never stores the reason
update_status_without_reason(tbl, event_unit_code, status, error_message) ==
    IF Select(tbl, event_unit_code, "pre_event") # {}
    THEN Update(tbl, event_unit_code, "pre_event", [status |-> status])
    ELSE Append(tbl, NewRow(event_unit_code, "pre_event", status))

\* a status write that drops the source snapshot of a record it marks failed
update_status_clearing_sources(tbl, event_unit_code, status, error_message) ==
    IF Select(tbl, event_unit_code, "pre_event") # {}
    THEN IF status = "failed"
         THEN Update(tbl, event_unit_code, "pre_event",
                     [status |-> status, error_message |-> error_message,
                      consolidated_text |-> NULL])
         ELSE Update(tbl, event_unit_code, "pre_event", [status |-> status])
    ELSE Append(tbl, NewRow(event_unit_code, "pre_event", status))

\* intro_orchestrator.update_status
update_status(tbl, event_unit_code, status, error_message) ==
    LET existing == Select(tbl, event_unit_code, "pre_event") # {}
    IN IF existing
       THEN IF Truthy(error_message)
            THEN Update(tbl, event_unit_code, "pre_event",
                        [status |-> status, error_message |-> error_message])
            ELSE Update(tbl, event_unit_code, "pre_event", [status |-> status])
       ELSE Append(tbl, NewRow(event_unit_code, "pre_event", status))

\* pipeline_orchestrator.save_commentary; writer_usage is what the caller passes,
\* writer_result['usage']; editor_result is None or the editor's return value
save_commentary(tbl, event_unit_code, content, proofed_content, sources_meta, raw_scrape_data, writer_usage, editor_result) ==
    LET corrections == IF editor_result # None THEN Get(editor_result, "corrections", <<>>) ELSE <<>>
        llm_model == Get(writer_usage, "model", "")
        prompt_ver == Get(writer_usage, "prompt_version", "")
        has_usage == "usage" \in DOMAIN writer_usage
        input_tokens == IF has_usage THEN Get(writer_usage["usage"], "input_tokens", 0) ELSE 0
        output_tokens == IF has_usage THEN Get(writer_usage["usage"], "output_tokens", 0) ELSE 0
        estimated_cost == IF has_usage THEN Get(writer_usage["usage"], "estimated_cost", 0) ELSE 0
    IN Update(tbl, event_unit_code, "post_event",
              [content |-> content, proofed_content |-> proofed_content,
               sources |-> json_dumps(sources_meta),
               consolidated_text |-> json_dumps(raw_scrape_data),
               corrections |-> corrections, status |-> "proofed",
               llm_model |-> llm_model, prompt_version |-> prompt_ver,
               input_tokens |-> input_tokens, output_tokens |-> output_tokens,
               estimated_cost |-> estimated_cost])

\* intro_orchestrator.save_intro
save_intro(tbl, event_unit_code, content, proofed_content, sources_meta, raw_scrape_data, writer_usage, editor_result) ==
    LET corrections == IF editor_result # None THEN Get(editor_result, "corrections", <<>>) ELSE <<>>
        llm_model == Get(writer_usage, "model", "")
        prompt_ver == Get(writer_usage, "prompt_version", "")
    IN Update(tbl, event_unit_code, "pre_event",
              [content |-> content, proofed_content |-> proofed_content,
               sources |-> json_dumps(sources_meta),
               consolidated_text |-> json_dumps(raw_scrape_data),
               corrections |-> corrections, status |-> "proofed",
               llm_model |-> llm_model, prompt_version |-> prompt_ver])

-----------------------------------------------------------------------------
(* Text generator calls.  A response is None (provider error, missing         *)
(* credential) or the generated text with its token counts.                  *)

Responses(texts) ==
    {None} \cup {[text |-> t, input_tokens |-> InputTokens(t),
                  output_tokens |-> OutputTokens(t)] : t \in texts}

\* commentary_writer.write_commentary
write_commentary(response) ==
    IF response = None THEN None
    ELSE [content |-> response.text,
          usage |-> [input_tokens |-> response.input_tokens,
                     output_tokens |-> response.output_tokens,
                     model |-> "claude-sonnet-4-20250514",
                     prompt_version |-> "v3",
                     estimated_cost |-> EstimatedCost(response.input_tokens,
                                                      response.output_tokens)]]

\* intro_writer.write_intro
write_intro(response) ==
    IF response = None THEN None
    ELSE [content |-> response.text,
          usage |-> [input_tokens |-> response.input_tokens,
                     output_tokens |-> response.output_tokens,
                     model |-> "claude-sonnet-4-20250514",
                     prompt_version |-> "v1",
                     estimated_cost |-> EstimatedCost(response.input_tokens,
                                                      response.output_tokens)]]

\* commentary_editor._call_claude / intro_editor._call_claude
call_claude(response) ==
    IF response = None THEN None
    ELSE [content |-> response.text,
          usage |-> [input_tokens |-> response.input_tokens,
                     output_tokens |-> response.output_tokens,
                     estimated_cost |-> EstimatedCost(response.input_tokens,
                                                      response.output_tokens)]]

-----------------------------------------------------------------------------
(* The two-agent editors *)

\* commentary_editor.fact_check, from the generator's response on
fact_check(response) ==
    LET result == call_claude(response)
    IN IF result = None THEN None
       ELSE LET full_output == result.content
            IN IF Contains(full_output, Sep)
               THEN [factchecked_content |-> Strip(SplitOnce(full_output, Sep)[2]),
                     issues |-> Strip(SplitOnce(full_output, Sep)[1]),
                     usage |-> result.usage]
               ELSE [factchecked_content |-> full_output, issues |-> <<>>,
                     usage |-> result.usage]

\* commentary_editor.prose_edit / intro_editor.prose_edit
prose_edit(response) ==
    LET result == call_claude(response)
    IN IF result = None THEN None
       ELSE [polished_content |-> result.content, usage |-> result.usage]

\* intro_editor.source_check
source_check(response) ==
    LET result == call_claude(response)
    IN IF result = None THEN None
       ELSE LET full_output == result.content
            IN IF Contains(full_output, Sep)
               THEN [checked_content |-> Strip(SplitOnce(full_output, Sep)[2]),
                     issues |-> Strip(SplitOnce(full_output, Sep)[1]),
                     usage |-> result.usage]
               ELSE [checked_content |-> full_output, issues |-> <<>>,
                     usage |-> result.usage]

\* a fallback that charges for the failed call
edit_commentary_fc_failed_charged(commentary_text) ==
    [proofed_content |-> commentary_text, corrections |-> <<"Fact-checker failed">>,
     usage |-> EmptyDict, estimated_cost |-> 1]

\* edit_commentary, the return when the fact-checker failed
edit_commentary_fc_failed(commentary_text) ==
    [proofed_content |-> commentary_text, corrections |-> <<"Fact-checker failed">>,
     usage |-> EmptyDict, estimated_cost |-> 0]

\* a fallback that drops the fact-checker's issues
edit_commentary_pe_failed_no_issues(fc_result) ==
    [proofed_content |-> fc_result.factchecked_content,
     corrections |-> <<>>,
     usage |-> fc_result.usage,
     estimated_cost |-> Get(fc_result.usage, "estimated_cost", 0)]

\* edit_commentary, the return when the prose editor failed
edit_commentary_pe_failed(fc_result) ==
    [proofed_content |-> fc_result.factchecked_content,
     corrections |-> fc_result.issues,
     usage |-> fc_result.usage,
     estimated_cost |-> Get(fc_result.usage, "estimated_cost", 0)]

\* edit_commentary, the return when both passes succeeded
edit_commentary_both(fc_result, pe_result) ==
    LET total_cost == Get(fc_result.usage, "estimated_cost", 0)
                      + Get(pe_result.usage, "estimated_cost", 0)
        total_usage ==
            [fact_checker |-> fc_result.usage,
             prose_editor |-> pe_result.usage,
             total_input_tokens |-> Get(fc_result.usage, "input_tokens", 0)
                                    + Get(pe_result.usage, "input_tokens", 0),
             total_output_tokens |-> Get(fc_result.usage, "output_tokens", 0)
                                     + Get(pe_result.usage, "output_tokens", 0)]
    IN [proofed_content |-> pe_result.polished_content,
        corrections |-> fc_result.issues,
        usage |-> total_usage,
        estimated_cost |-> RoundDiv(total_cost * 100, 100)]

\* edit_intro, the return when the source-checker failed
edit_intro_sc_failed(preview) ==
    [proofed_content |-> preview, corrections |-> <<"Source-checker failed">>,
     usage |-> EmptyDict, estimated_cost |-> 0]

\* edit_intro, the return when the prose editor failed
edit_intro_pe_failed(sc_result) ==
    [proofed_content |-> sc_result.checked_content,
     corrections |-> sc_result.issues,
     usage |-> sc_result.usage,
     estimated_cost |-> Get(sc_result.usage, "estimated_cost", 0)]

\* an aggregate that reports the prose editor's cost alone
edit_intro_both_prose_cost(sc_result, pe_result) ==
    [proofed_content |-> pe_result.polished_content,
     corrections |-> sc_result.issues,
     usage |-> [source_checker |-> sc_result.usage,
                prose_editor |-> pe_result.usage,
                total_input_tokens |-> Get(sc_result.usage, "input_tokens", 0)
                                       + Get(pe_result.usage, "input_tokens", 0),
                total_output_tokens |-> Get(sc_result.usage, "output_tokens", 0)
                                        + Get(pe_result.usage, "output_tokens", 0)],
     estimated_cost |-> Get(pe_result.usage, "estimated_cost", 0)]

\* edit_intro, the return when both passes succeeded
edit_intro_both(sc_result, pe_result) ==
    LET total_cost == Get(sc_result.usage, "estimated_cost", 0)
                      + Get(pe_result.usage, "estimated_cost", 0)
        total_usage ==
            [source_checker |-> sc_result.usage,
             prose_editor |-> pe_result.usage,
             total_input_tokens |-> Get(sc_result.usage, "input_tokens", 0)
                                    + Get(pe_result.usage, "input_tokens", 0),
             total_output_tokens |-> Get(sc_result.usage, "output_tokens", 0)
                                     + Get(pe_result.usage, "output_tokens", 0)]
    IN [proofed_content |-> pe_result.polished_content,
        corrections |-> sc_result.issues,
        usage |-> total_usage,
        estimated_cost |-> RoundDiv(total_cost * 100, 100)]

-----------------------------------------------------------------------------
(* Consolidated documents: the sequence of section headers *)

\* the "=== EVENT CONTEXT ===" block of a post-event document
ContextSection(resolved_data) ==
    [header |-> "=== EVENT CONTEXT ===",
     lines |-> <<"Event", "Date", "Discipline", "Medal Event">>,
     event |-> resolved_data.event_unit_code]

\* the results block: one line per result row, in the resolver's order
ResultsSection(resolved_data) ==
    [header |-> "=== RESULTS (from database - ground truth) ===",
     rows |-> resolved_data.results]

\* the "=== SOURCE i: domain ===" blocks, one per article, numbered from 1
SourceSections(articles) ==
    [i \in 1..Len(articles) |-> [header |-> "=== SOURCE ===", index |-> i, article |-> articles[i]]]

\* the block appended when `not articles`
NoSourcesSection(articles) ==
    IF Len(articles) = 0 THEN <<[header |-> "=== NO SOURCES FOUND ==="]>> ELSE <<>>

\* a consolidated file made of the scraped sources alone
build_consolidated_file_sources_only(resolved_data, articles) ==
    SourceSections(articles)

\* a consolidated file that lists the sources before the results
build_consolidated_file_sources_first(resolved_data, articles) ==
    <<ContextSection(resolved_data)>> \o SourceSections(articles)
    \o <<ResultsSection(resolved_data)>> \o NoSourcesSection(articles)

\* source_scraper.build_consolidated_file
build_consolidated_file(resolved_data, articles) ==
    <<ContextSection(resolved_data), ResultsSection(resolved_data)>>
    \o SourceSections(articles)
    \o NoSourcesSection(articles)

\* intro_orchestrator.build_preview_queries: the three preview queries
build_preview_queries(event_unit_code) ==
    <<[type |-> "preview"], [type |-> "contenders"], [type |-> "usa"]>>

\* intro_orchestrator.build_preview_consolidated
build_preview_consolidated(event_unit_code, articles) ==
    <<[header |-> "=== EVENT CONTEXT ===",
       lines |-> <<"Event", "Discipline", "Scheduled", "Medal Event", "Unit">>,
       event |-> event_unit_code]>>
    \o SourceSections(articles)
    \o NoSourcesSection(articles)

-----------------------------------------------------------------------------
(* source_resolver *)

\* get_event_context: None without a schedule_units row, else the medal flag
\* and the results rows in the order of the query
get_event_context(event_unit_code) ==
    IF event_unit_code \in ScheduleUnits
    THEN [medal_flag |-> MedalFlag(event_unit_code), results |-> Results(event_unit_code)]
    ELSE None

\* the first of the row indexes I, 0 when there is none
FirstRow(I) == IF I = {} THEN 0 ELSE CHOOSE i \in I : \A j \in I : i <= j

\* index of the first row of a medal tier
FirstMedal(results, medal_type) ==
    FirstRow({i \in 1..Len(results) : results[i].medal_type = medal_type})

\* get_medal_nocs: the NOC of the first row of each medal tier; when no row
\* has a medal, the NOC of the first row marked W or placed first
get_medal_nocs(results) ==
    LET at == [gold |-> FirstMedal(results, "ME_GOLD"),
               silver |-> FirstMedal(results, "ME_SILVER"),
               bronze |-> FirstMedal(results, "ME_BRONZE")]
        medals == {k \in DOMAIN at : at[k] > 0}
        w == FirstRow({i \in 1..Len(results) :
                          results[i].wlt = "W" \/ results[i].position = 1})
    IN IF medals # {}
       THEN [k \in medals |-> results[at[k]].noc]
       ELSE IF w > 0 THEN [k \in {"winner"} |-> results[w].noc]
       ELSE EmptyDict

MedalTypes == <<"gold", "silver", "bronze", "winner">>

CountryQuery(medal_type, noc) == [type |-> "country", tier |-> medal_type, noc |-> noc]

\* a loop that emits one country query for every tier that has a NOC
RECURSIVE country_queries_per_tier(_, _, _)
country_queries_per_tier(medal_nocs, medal_types, seen_nocs) ==
    IF medal_types = <<>> THEN <<>>
    ELSE LET noc == Get(medal_nocs, Head(medal_types), "")
         IN IF noc = ""
            THEN country_queries_per_tier(medal_nocs, Tail(medal_types), seen_nocs)
            ELSE <<CountryQuery(Head(medal_types), noc)>>
                 \o country_queries_per_tier(medal_nocs, Tail(medal_types), seen_nocs)

\* the loop over gold, silver, bronze, winner: a tier without a NOC or with
\* a NOC already in seen_nocs is skipped
RECURSIVE country_queries(_, _, _)
country_queries(medal_nocs, medal_types, seen_nocs) ==
    IF medal_types = <<>> THEN <<>>
    ELSE LET noc == Get(medal_nocs, Head(medal_types), "")
         IN IF noc = "" \/ noc \in seen_nocs
            THEN country_queries(medal_nocs, Tail(medal_types), seen_nocs)
            ELSE <<CountryQuery(Head(medal_types), noc)>>
                 \o country_queries(medal_nocs, Tail(medal_types), seen_nocs \cup {noc})

\* a USA query that is appended whatever the country queries are
usa_queries_always(countries) == <<[type |-> "usa", noc |-> "USA"]>>

\* the USA query, appended when usa_covered is still False
usa_queries(countries) ==
    IF \E i \in 1..Len(countries) : countries[i].noc = "USA"
    THEN <<>> ELSE <<[type |-> "usa", noc |-> "USA"]>>

\* a resolver that treats an event without results as not found
resolve_context_needs_results(event_unit_code, context) ==
    IF context = None \/ context.results = <<>> THEN None
    ELSE [event_unit_code |-> event_unit_code, is_medal_event |-> context.medal_flag,
          results |-> context.results, queries |-> <<[type |-> "general"]>>]

\* resolve_sources after get_event_context has returned
resolve_context(event_unit_code, context) ==
    IF context = None THEN None
    ELSE LET countries == country_queries(get_medal_nocs(context.results), MedalTypes, {})
         IN [event_unit_code |-> event_unit_code,
             is_medal_event |-> context.medal_flag,
             results |-> context.results,
             queries |-> <<[type |-> "general"]>> \o countries \o usa_queries(countries)]

\* commentary_editor.format_results_for_editor: one line per result row
format_results_for_editor(resolved_data) ==
    [i \in 1..Len(resolved_data.results) |-> resolved_data.results[i].noc]

\* a resolver that answers for any event code
resolve_sources_any(event_unit_code) ==
    resolve_context(event_unit_code, [medal_flag |-> 0, results |-> <<>>])

\* source_resolver.resolve_sources: None when the event is in no schedule_units row
resolve_sources(event_unit_code) ==
    resolve_context(event_unit_code, get_event_context(event_unit_code))

-----------------------------------------------------------------------------
(* The Scheduler's eligibility queries *)

\* an exclusion set that lets finished records through
Exclusion_published_only == {"published"}

\* an exclusion set that also holds failed records back
Exclusion_with_failed == {"proofed", "published", "writing", "failed"}

\* an exclusion set that also holds back records left in scraping
Exclusion_with_scraping == {"published", "proofed", "writing", "analyzing", "scraping"}

PostExclusion == {"published", "proofed", "writing", "analyzing"}
PreExclusion == {"proofed", "published", "writing"}

\* an order by start time alone
Before_chronological(a, b) ==
    StartTime(a) < StartTime(b)

\* ORDER BY su.medal_flag DESC, su.start_time
Before(a, b) ==
    \/ MedalFlag(a) > MedalFlag(b)
    \/ MedalFlag(a) = MedalFlag(b) /\ StartTime(a) < StartTime(b)

RECURSIVE Ordered(_)
Ordered(S) ==
    IF S = {} THEN <<>>
    ELSE LET first == CHOOSE a \in S : \A b \in S : Before(a, b) \/ ~Before(b, a)
         IN <<first>> \o Ordered(S \ {first})

\* commentary_scheduler.get_post_event_pending
get_post_event_pending(tbl) ==
    Ordered({e \in ScheduleUnits :
                /\ HasResults(e)
                /\ StartedInLast24h(e)
                /\ ~\E i \in 1..Len(tbl) :
                       /\ tbl[i].event_unit_code = e
                       /\ tbl[i].commentary_type = "post_event"
                       /\ tbl[i].status \in PostExclusion})

\* commentary_scheduler.get_pre_event_pending
get_pre_event_pending(tbl) ==
    Ordered({e \in ScheduleUnits :
                /\ StartsInNext24h(e)
                /\ ~\E i \in 1..Len(tbl) :
                       /\ tbl[i].event_unit_code = e
                       /\ tbl[i].commentary_type = "pre_event"
                       /\ tbl[i].status \in PreExclusion})

-----------------------------------------------------------------------------
(* Run state *)

\* no scrape_for_event call is being followed
NoScrape == [pc |-> "none"]
NoResolve == [pc |-> "none"]
NoEdit == [pc |-> "none"]
NoWrite == [pc |-> "none"]

NoJob == [driver |-> "none", queue |-> <<>>, evt |-> "none", ctype |-> "none", dry_run |-> FALSE]
NoLoc == [articles |-> <<>>, consolidated |-> <<>>, results_text |-> None, content |-> NULL,
          writer_usage |-> EmptyDict, check_result |-> None, prose_result |-> None,
          editor_result |-> None]
\* the counters of a batch loop, and the units it has handed to process_event
NoTally == [success |-> 0, failed |-> 0, handed |-> <<>>]
NoObs == [writes |-> <<>>, resolver_calls |-> 0, queries |-> <<>>, searched |-> <<>>, scrapes |-> 0,
          writer_calls |-> 0, verifier_calls |-> 0, prose_calls |-> 0, before |-> <<>>,
          ret |-> "none"]

Init ==
    /\ commentary = <<>>
    /\ pc = [r \in Runs |-> "idle"]
    /\ job = [r \in Runs |-> NoJob]
    /\ loc = [r \in Runs |-> NoLoc]
    /\ obs = [r \in Runs |-> NoObs]
    /\ tally = [r \in Runs |-> NoTally]
    /\ invocations = 0
    /\ scraper = NoScrape
    /\ resolver = NoResolve
    /\ editor = NoEdit
    /\ schedule = BaseSchedule
    /\ writes = [r \in Runs |-> NoWrite]

InBatch(r) == job[r].driver \in {"run_post_events", "run_pre_events"}

InFlight == {"resolve", "start", "scrape", "write", "fact_check", "source_check", "prose_edit"}

Wrote(o, status) == [o EXCEPT !.writes = Append(@, status)]

\* process_event returns ok to its caller, having done o; the batch loops count it
Return(r, o, ok) ==
    /\ pc' = [pc EXCEPT ![r] = "returned"]
    /\ obs' = [obs EXCEPT ![r] = [o EXCEPT !.ret = IF ok THEN "True" ELSE "False"]]
    /\ tally' = IF InBatch(r)
                THEN [tally EXCEPT ![r].success = @ + (IF ok THEN 1 ELSE 0),
                                   ![r].failed = @ + (IF ok THEN 0 ELSE 1)]
                ELSE tally

\* process_event is entered: no locals yet, nothing done yet
Enter(r) ==
    /\ loc' = [loc EXCEPT ![r] = NoLoc]
    /\ obs' = [obs EXCEPT ![r] = [NoObs EXCEPT !.before = commentary]]

\* the driver returns: the process ends and its locals are gone
Leave(r) ==
    /\ pc' = [pc EXCEPT ![r] = "idle"]
    /\ job' = [job EXCEPT ![r] = NoJob]
    /\ loc' = [loc EXCEPT ![r] = NoLoc]
    /\ obs' = [obs EXCEPT ![r] = NoObs]
    /\ tally' = [tally EXCEPT ![r] = NoTally]

-----------------------------------------------------------------------------
(* Drivers *)

\* commentary_scheduler.run_post_events, up to the batch loop
SchedulerPost(r) ==
    /\ pc[r] = "idle"
    /\ invocations < MaxInvocations
    /\ invocations' = invocations + 1
    /\ \E dry_run \in BOOLEAN :
       LET events == get_post_event_pending(commentary)
       IN IF events = <<>> \/ dry_run
          THEN UNCHANGED <<pc, job>>
          ELSE /\ job' = [job EXCEPT ![r] = [NoJob EXCEPT !.driver = "run_post_events",
                                                          !.queue = events,
                                                          !.ctype = "post_event"]]
               /\ pc' = [pc EXCEPT ![r] = "pending"]
    /\ UNCHANGED <<commentary, loc, obs, tally>>

\* commentary_scheduler.run_pre_events, up to the batch loop
SchedulerPre(r) ==
    /\ pc[r] = "idle"
    /\ invocations < MaxInvocations
    /\ invocations' = invocations + 1
    /\ \E dry_run \in BOOLEAN :
       LET events == get_pre_event_pending(commentary)
       IN IF events = <<>> \/ dry_run
          THEN UNCHANGED <<pc, job>>
          ELSE /\ job' = [job EXCEPT ![r] = [NoJob EXCEPT !.driver = "run_pre_events",
                                                          !.queue = events,
                                                          !.ctype = "pre_event"]]
               /\ pc' = [pc EXCEPT ![r] = "pending"]
    /\ UNCHANGED <<commentary, loc, obs, tally>>

\* the batch loop of run_post_events: the next event, or the end of the batch
LoopPost(r) ==
    /\ pc[r] \in {"pending", "returned"}
    /\ obs[r].ret # "uncaught"
    /\ job[r].driver = "run_post_events"
    /\ IF job[r].queue = <<>>
       THEN Leave(r)
       ELSE /\ pc' = [pc EXCEPT ![r] = "resolve"]
            /\ job' = [job EXCEPT ![r].evt = Head(job[r].queue),
                                  ![r].queue = Tail(job[r].queue)]
            /\ Enter(r)
            /\ tally' = [tally EXCEPT ![r].handed = Append(@, Head(job[r].queue))]
    /\ UNCHANGED <<commentary, invocations>>

UpperCase == <<"A", "B", "C", "D", "E", "F", "G", "H", "I", "J", "K", "L", "M", "N", "O", "P", "Q", "R", "S", "T", "U", "V", "W", "X", "Y", "Z">>
LowerCase == <<"a", "b", "c", "d", "e", "f", "g", "h", "i", "j", "k", "l", "m", "n", "o", "p", "q", "r", "s", "t", "u", "v", "w", "x", "y", "z">>
\* str.lower()
lower(s) ==
    [i \in 1..Len(s) |-> IF \E k \in 1..Len(UpperCase) : UpperCase[k] = s[i]
                         THEN LowerCase[CHOOSE k \in 1..Len(UpperCase) : UpperCase[k] = s[i]]
                         ELSE s[i]]
\* sub in s, for strings
In(sub, s) == \E i \in 0..(Len(s) - Len(sub)) : SubSeq(s, i + 1, i + Len(sub)) = sub

\* ['training', 'practice', 'warm']
SkipWords ==
    {<<"t", "r", "a", "i", "n", "i", "n", "g">>, <<"p", "r", "a", "c", "t", "i", "c", "e">>,
     <<"w", "a", "r", "m">>}

\* a skip test on the unit name as stored
IsSkipped_case_sensitive(e) ==
    \E skip \in SkipWords : In(skip, UnitName(e))

\* run_pre_events: any(skip in unit_name for skip in [...]) on the lowered name
IsSkipped(e) ==
    LET unit_name == lower(UnitName(e))
    IN \E skip \in SkipWords : In(skip, unit_name)

\* the pending list from its first unit that is not skipped
RECURSIVE AfterSkipped(_)
AfterSkipped(events) ==
    IF events # <<>> /\ IsSkipped(Head(events)) THEN AfterSkipped(Tail(events)) ELSE events

\* the batch loop of run_pre_events: skipped units are passed over, the next
\* unit is handed to process_event, or the batch ends
LoopPre(r) ==
    /\ pc[r] \in {"pending", "returned"}
    /\ obs[r].ret # "uncaught"
    /\ job[r].driver = "run_pre_events"
    /\ LET events == AfterSkipped(job[r].queue)
       IN IF events = <<>>
          THEN Leave(r)
          ELSE /\ pc' = [pc EXCEPT ![r] = "start"]
               /\ job' = [job EXCEPT ![r].evt = Head(events), ![r].queue = Tail(events)]
               /\ Enter(r)
               /\ tally' = [tally EXCEPT ![r].handed = Append(@, Head(events))]
    /\ UNCHANGED <<commentary, invocations>>

\* pipeline_orchestrator.process_event called directly (manual retry, __main__)
ManualPost(r) ==
    /\ pc[r] = "idle"
    /\ invocations < MaxInvocations
    /\ invocations' = invocations + 1
    /\ \E in \in ManualPostInputs, dry_run \in BOOLEAN :
          job' = [job EXCEPT ![r] = [driver |-> "manual_post", queue |-> <<>>,
                                     evt |-> in[1], ctype |-> in[2], dry_run |-> dry_run]]
    /\ pc' = [pc EXCEPT ![r] = "resolve"]
    /\ Enter(r)
    /\ UNCHANGED <<commentary, tally>>

\* intro_orchestrator.process_event called directly (__main__ looks the event up)
ManualPre(r) ==
    /\ pc[r] = "idle"
    /\ invocations < MaxInvocations
    /\ invocations' = invocations + 1
    /\ \E e \in ManualPreInputs, dry_run \in BOOLEAN :
          job' = [job EXCEPT ![r] = [driver |-> "manual_pre", queue |-> <<>>,
                                     evt |-> e, ctype |-> "pre_event", dry_run |-> dry_run]]
    /\ pc' = [pc EXCEPT ![r] = "start"]
    /\ Enter(r)
    /\ UNCHANGED <<commentary, tally>>

\* a directly called process_event has returned, or an exception has left the
\* batch loop: the process ends
Exit(r) ==
    /\ pc[r] = "returned"
    /\ ~InBatch(r) \/ obs[r].ret = "uncaught"
    /\ Leave(r)
    /\ UNCHANGED <<commentary, invocations>>

-----------------------------------------------------------------------------
(* pipeline_orchestrator.process_event, one action per blocking call *)

\* Step 1: resolve_sources returns; on success the status is marked scraping
PostResolved(r) ==
    /\ pc[r] = "resolve"
    /\ LET e == job[r].evt
           ct == job[r].ctype
           resolved == resolve_sources(e)
           o == [obs[r] EXCEPT !.resolver_calls = @ + 1]
       IN IF resolved = None
          THEN /\ commentary' = update_commentary_status(commentary, e, "failed",
                                    Msg("Source resolution failed", 24), ct)
               /\ Return(r, Wrote(o, "failed"), FALSE)
          ELSE IF job[r].dry_run
          THEN /\ Return(r, [o EXCEPT !.queries = resolved.queries], TRUE)
               /\ UNCHANGED commentary
          ELSE /\ commentary' = update_commentary_status(commentary, e, "scraping", NullMsg, ct)
               /\ pc' = [pc EXCEPT ![r] = "scrape"]
               /\ obs' = [obs EXCEPT ![r] = Wrote([o EXCEPT !.queries = resolved.queries],
                                                  "scraping")]
               /\ UNCHANGED tally
    /\ UNCHANGED <<job, loc, invocations>>

\* a loop that searches the first query a second time
next_query_again(searched) == IF searched = <<1>> THEN 1 ELSE Len(searched) + 1

\* scrape_for_event's loop over the queries: the position of the next query
next_query(searched) == Len(searched) + 1

\* Step 2, inside scrape_for_event: the search of the next query returns
QuerySearched(r) ==
    /\ pc[r] = "scrape"
    /\ Len(obs[r].searched) < Len(obs[r].queries)
    /\ obs' = [obs EXCEPT ![r].searched = Append(@, next_query(@))]
    /\ UNCHANGED <<commentary, pc, job, loc, tally, invocations>>

\* Step 2: scrape_for_event returns; the consolidated file is built and the
\* status is marked writing (an empty article list is written from results only)
PostScraped(r) ==
    /\ pc[r] = "scrape"
    /\ Len(obs[r].searched) = Len(obs[r].queries)
    /\ job[r].driver \in {"run_post_events", "manual_post"}
    /\ \E articles \in ScrapeOutcomes :
          loc' = [loc EXCEPT ![r].articles = articles,
                             ![r].consolidated =
                                 build_consolidated_file(resolve_sources(job[r].evt), articles)]
    /\ commentary' = update_commentary_status(commentary, job[r].evt, "writing",
                                              NullMsg, job[r].ctype)
    /\ pc' = [pc EXCEPT ![r] = "write"]
    /\ obs' = [obs EXCEPT ![r] = Wrote([@ EXCEPT !.scrapes = @ + 1], "writing")]
    /\ UNCHANGED <<job, tally, invocations>>

\* Step 3: write_commentary returns
PostWritten(r) ==
    /\ pc[r] = "write"
    /\ job[r].driver \in {"run_post_events", "manual_post"}
    /\ \E response \in Responses(WriterTexts) :
          LET writer_result == write_commentary(response)
              o == [obs[r] EXCEPT !.writer_calls = @ + 1]
          IN IF writer_result = None
             THEN /\ commentary' = update_commentary_status(commentary, job[r].evt, "failed",
                                       Msg("Writer LLM call failed", 22), job[r].ctype)
                  /\ Return(r, Wrote(o, "failed"), FALSE)
                  /\ UNCHANGED loc
             ELSE /\ loc' = [loc EXCEPT ![r].content = writer_result.content,
                                        ![r].writer_usage = writer_result.usage,
                                        ![r].results_text =
                                            format_results_for_editor(resolve_sources(job[r].evt))]
                  /\ pc' = [pc EXCEPT ![r] = "fact_check"]
                  /\ obs' = [obs EXCEPT ![r] = o]
                  /\ UNCHANGED <<commentary, tally>>
    /\ UNCHANGED <<job, invocations>>

\* a store that always takes the unproofed branch
PostStore_unproofed(tbl, event_unit_code, l, editor_result) ==
    save_commentary(tbl, event_unit_code, l.content, l.content, l.articles,
                    l.consolidated, l.writer_usage, None)

\* Steps 4 and 5 of process_event once edit_commentary has returned editor_result
PostStore(tbl, event_unit_code, l, editor_result) ==
    IF editor_result = None
    THEN save_commentary(tbl, event_unit_code, l.content, l.content, l.articles,
                         l.consolidated, l.writer_usage, None)
    ELSE save_commentary(tbl, event_unit_code, l.content, editor_result.proofed_content,
                         l.articles, l.consolidated, l.writer_usage, editor_result)

\* Step 4, pass 1: fact_check returns; when it failed edit_commentary returns
\* the fallback and the commentary is saved
PostFactChecked(r) ==
    /\ pc[r] = "fact_check"
    /\ \E response \in Responses(VerifierTexts) :
          LET fc_result == fact_check(response)
              o == [obs[r] EXCEPT !.verifier_calls = @ + 1]
          IN IF fc_result = None
             THEN LET editor_result == edit_commentary_fc_failed(loc[r].content)
                  IN /\ loc' = [loc EXCEPT ![r].editor_result = editor_result]
                     /\ commentary' = PostStore(commentary, job[r].evt, loc[r], editor_result)
                     /\ Return(r, Wrote(o, "proofed"), TRUE)
             ELSE /\ loc' = [loc EXCEPT ![r].check_result = fc_result]
                  /\ pc' = [pc EXCEPT ![r] = "prose_edit"]
                  /\ obs' = [obs EXCEPT ![r] = o]
                  /\ UNCHANGED <<commentary, tally>>
    /\ UNCHANGED <<job, invocations>>

\* Step 4, pass 2: prose_edit returns, edit_commentary returns, the commentary is saved
PostProseEdited(r) ==
    /\ pc[r] = "prose_edit"
    /\ job[r].driver \in {"run_post_events", "manual_post"}
    /\ \E response \in Responses(ProseTexts) :
          LET pe_result == prose_edit(response)
              editor_result == IF pe_result = None
                               THEN edit_commentary_pe_failed(loc[r].check_result)
                               ELSE edit_commentary_both(loc[r].check_result, pe_result)
          IN /\ loc' = [loc EXCEPT ![r].prose_result = pe_result,
                                   ![r].editor_result = editor_result]
             /\ commentary' = PostStore(commentary, job[r].evt, loc[r], editor_result)
             /\ Return(r, Wrote([obs[r] EXCEPT !.prose_calls = @ + 1], "proofed"), TRUE)
    /\ UNCHANGED <<job, invocations>>

-----------------------------------------------------------------------------
(* intro_orchestrator.process_event *)

\* Steps 1 and 2: the preview queries are built and the status is marked scraping
PreStarted(r) ==
    /\ pc[r] = "start"
    /\ LET o == [obs[r] EXCEPT !.queries = build_preview_queries(job[r].evt)]
       IN IF job[r].dry_run
          THEN /\ Return(r, o, TRUE)
               /\ UNCHANGED commentary
          ELSE /\ commentary' = update_status(commentary, job[r].evt, "scraping", NullMsg)
               /\ pc' = [pc EXCEPT ![r] = "scrape"]
               /\ obs' = [obs EXCEPT ![r] = Wrote(o, "scraping")]
               /\ UNCHANGED tally
    /\ UNCHANGED <<job, loc, invocations>>

\* Step 2: scrape_for_event returns; no article is a failure, else mark writing
PreScraped(r) ==
    /\ pc[r] = "scrape"
    /\ Len(obs[r].searched) = Len(obs[r].queries)
    /\ job[r].driver \in {"run_pre_events", "manual_pre"}
    /\ \E articles \in ScrapeOutcomes :
          LET o == [obs[r] EXCEPT !.scrapes = @ + 1]
          IN /\ loc' = [loc EXCEPT ![r].articles = articles,
                                   ![r].consolidated =
                                       build_preview_consolidated(job[r].evt, articles)]
             /\ IF articles = <<>>
                THEN /\ commentary' = update_status(commentary, job[r].evt, "failed",
                                                    Msg("No preview sources found", 24))
                     /\ Return(r, Wrote(o, "failed"), FALSE)
                ELSE /\ commentary' = update_status(commentary, job[r].evt, "writing", NullMsg)
                     /\ pc' = [pc EXCEPT ![r] = "write"]
                     /\ obs' = [obs EXCEPT ![r] = Wrote(o, "writing")]
                     /\ UNCHANGED tally
    /\ UNCHANGED <<job, invocations>>

\* Step 3: write_intro returns
PreWritten(r) ==
    /\ pc[r] = "write"
    /\ job[r].driver \in {"run_pre_events", "manual_pre"}
    /\ \E response \in Responses(WriterTexts) :
          LET writer_result == write_intro(response)
              o == [obs[r] EXCEPT !.writer_calls = @ + 1]
          IN IF writer_result = None
             THEN /\ commentary' = update_status(commentary, job[r].evt, "failed",
                                                 Msg("Writer LLM call failed", 22))
                  /\ Return(r, Wrote(o, "failed"), FALSE)
                  /\ UNCHANGED loc
             ELSE /\ loc' = [loc EXCEPT ![r].content = writer_result.content,
                                        ![r].writer_usage = writer_result.usage]
                  /\ pc' = [pc EXCEPT ![r] = "source_check"]
                  /\ obs' = [obs EXCEPT ![r] = o]
                  /\ UNCHANGED <<commentary, tally>>
    /\ UNCHANGED <<job, invocations>>

\* Steps 4 and 5 of process_event once edit_intro has returned editor_result
PreStore(tbl, event_unit_code, l, editor_result) ==
    IF editor_result = None
    THEN save_intro(tbl, event_unit_code, l.content, l.content, l.articles,
                    l.consolidated, l.writer_usage, None)
    ELSE save_intro(tbl, event_unit_code, l.content, editor_result.proofed_content,
                    l.articles, l.consolidated, l.writer_usage, editor_result)

\* Step 4, pass 1: source_check returns
PreSourceChecked(r) ==
    /\ pc[r] = "source_check"
    /\ \E response \in Responses(VerifierTexts) :
          LET sc_result == source_check(response)
              o == [obs[r] EXCEPT !.verifier_calls = @ + 1]
          IN IF sc_result = None
             THEN LET editor_result == edit_intro_sc_failed(loc[r].content)
                  IN /\ loc' = [loc EXCEPT ![r].editor_result = editor_result]
                     /\ commentary' = PreStore(commentary, job[r].evt, loc[r], editor_result)
                     /\ Return(r, Wrote(o, "proofed"), TRUE)
             ELSE /\ loc' = [loc EXCEPT ![r].check_result = sc_result]
                  /\ pc' = [pc EXCEPT ![r] = "prose_edit"]
                  /\ obs' = [obs EXCEPT ![r] = o]
                  /\ UNCHANGED <<commentary, tally>>
    /\ UNCHANGED <<job, invocations>>

\* Step 4, pass 2: prose_edit returns, edit_intro returns, the intro is saved
PreProseEdited(r) ==
    /\ pc[r] = "prose_edit"
    /\ job[r].driver \in {"run_pre_events", "manual_pre"}
    /\ \E response \in Responses(ProseTexts) :
          LET pe_result == prose_edit(response)
              editor_result == IF pe_result = None
                               THEN edit_intro_pe_failed(loc[r].check_result)
                               ELSE edit_intro_both(loc[r].check_result, pe_result)
          IN /\ loc' = [loc EXCEPT ![r].prose_result = pe_result,
                                   ![r].editor_result = editor_result]
             /\ commentary' = PreStore(commentary, job[r].evt, loc[r], editor_result)
             /\ Return(r, Wrote([obs[r] EXCEPT !.prose_calls = @ + 1], "proofed"), TRUE)
    /\ UNCHANGED <<job, invocations>>

-----------------------------------------------------------------------------
(* Exceptions and the world outside the pipeline *)

ErrorMessageLimit == 500
\* str(e)[:500]
Truncated(m) == Msg(m.text, IF m.len > ErrorMessageLimit THEN ErrorMessageLimit ELSE m.len)

\* the blocking call of process_event raises: the batch loops catch it, record
\* the event as failed and go on; a directly called process_event ends the process
Raised(r) ==
    /\ pc[r] \in InFlight
    /\ \E e \in ExceptionMessages :
          /\ commentary' =
                IF job[r].driver = "run_post_events"
                THEN update_commentary_status(commentary, job[r].evt, "failed",
                                              Truncated(e), "post_event")
                ELSE IF job[r].driver = "run_pre_events"
                THEN update_status(commentary, job[r].evt, "failed", Truncated(e))
                ELSE commentary
          /\ obs' = [obs EXCEPT ![r] = [(IF InBatch(r) THEN Wrote(@, "failed") ELSE @)
                                           EXCEPT !.ret = "raised"]]
    /\ pc' = [pc EXCEPT ![r] = "returned"]
    /\ tally' = IF InBatch(r) THEN [tally EXCEPT ![r].failed = @ + 1] ELSE tally
    /\ UNCHANGED <<job, loc, invocations>>

\* the blocking call raises and the batch handler's own status write raises
\* too (the store is unreachable; the write is not guarded): the exception
\* leaves the loop, nothing is recorded and the rest of the batch is dropped
HandlerRaised(r) ==
    /\ pc[r] \in InFlight
    /\ InBatch(r)
    /\ pc' = [pc EXCEPT ![r] = "returned"]
    /\ obs' = [obs EXCEPT ![r].ret = "uncaught"]
    /\ UNCHANGED <<commentary, job, loc, tally, invocations>>

\* the process is interrupted in the middle of an event: the record keeps the
\* last status written
Aborted(r) ==
    /\ pc[r] \in InFlight
    /\ Leave(r)
    /\ UNCHANGED <<commentary, invocations>>

\* an editor publishes a proofed record (the pipeline never writes published)
Publish ==
    /\ \E i \in 1..Len(commentary) :
          /\ commentary[i].status = "proofed"
          /\ commentary' = [commentary EXCEPT ![i].status = "published"]
    /\ UNCHANGED <<pc, job, loc, obs, tally, invocations>>

-----------------------------------------------------------------------------
(* Specifications *)

Stage(r) ==
    \/ PostResolved(r) \/ QuerySearched(r) \/ PostScraped(r) \/ PostWritten(r)
    \/ PostFactChecked(r) \/ PostProseEdited(r)
    \/ PreStarted(r) \/ PreScraped(r) \/ PreWritten(r)
    \/ PreSourceChecked(r) \/ PreProseEdited(r)
    \/ Raised(r) \/ HandlerRaised(r) \/ Aborted(r)

Batch(r) == SchedulerPost(r) \/ SchedulerPre(r) \/ LoopPost(r) \/ LoopPre(r)

Manual(r) == ManualPost(r) \/ ManualPre(r) \/ Exit(r)

\* single-threaded execution: one process at a time, any driver
Next ==
    /\ Batch("r1") \/ Manual("r1") \/ Stage("r1") \/ Publish
    /\ UNCHANGED <<scraper, resolver, editor, schedule, writes>>

Spec == Init /\ [][Next]_vars

\* overlapping Scheduler processes
NextConc ==
    /\ \E r \in Runs : Batch(r) \/ Stage(r) \/ Exit(r)
    /\ UNCHANGED <<scraper, resolver, editor, schedule, writes>>

SpecConc == Init /\ [][NextConc]_vars

-----------------------------------------------------------------------------
(* Properties *)

Row(tbl, e, ct) == tbl[CHOOSE i \in Select(tbl, e, ct) : TRUE]
IsPost(r) == job[r].driver \in {"run_post_events", "manual_post"}
IsPre(r) == job[r].driver \in {"run_pre_events", "manual_pre"}
Keys == (ScheduleUnits \cup {UnknownCode}) \X CommentaryTypes

\* C1: after any sequence of orchestrator invocations, whatever the stage
\* outcomes, the table holds at most one row per (event, commentary_type)
C1_OneRecordPerKey ==
    \A k \in Keys : Cardinality(Select(commentary, k[1], k[2])) <= 1

\* an invocation on a record that was already published has run to its end
C1_Witness ==
    \E r \in Runs :
        /\ pc[r] = "returned"
        /\ obs[r].ret = "True"
        /\ \E i \in 1..Len(obs[r].before) :
              /\ Matches(obs[r].before[i], job[r].evt, job[r].ctype)
              /\ obs[r].before[i].status = "published"
        /\ Cardinality(Select(commentary, job[r].evt, job[r].ctype)) = 1

\* the record of the event a run is processing, when it is in a status the
\* orchestrator writes while in flight
InFlightRecord(r) ==
    /\ pc[r] \in InFlight
    /\ \E i \in Select(commentary, job[r].evt, job[r].ctype) :
          commentary[i].status \in {"scraping", "writing"}

Range(s) == {s[i] : i \in 1..Len(s)}

\* what an eligibility query issued now for commentary type ct returns
Pending(ct) ==
    IF ct = "post_event" THEN Range(get_post_event_pending(commentary))
    ELSE Range(get_pre_event_pending(commentary))

\* C2: no two orchestrator runs for the same (event, commentary_type) are in
\* flight at the same time, and while a run is processing an event (record in
\* scraping or writing) an eligibility query does not return that event
C2_NoConcurrentRuns ==
    /\ \A r1, r2 \in Runs :
          (r1 # r2 /\ pc[r1] \in InFlight /\ pc[r2] \in InFlight)
              => ~(job[r1].evt = job[r2].evt /\ job[r1].ctype = job[r2].ctype)
    /\ \A r \in Runs : InFlightRecord(r) => job[r].evt \notin Pending(job[r].ctype)

-----------------------------------------------------------------------------
(* The editor's fallback ladder, observed when process_event has returned *)

\* the editor was entered and returned to a process_event that has returned
Edited(r) == pc[r] = "returned" /\ obs[r].ret = "True" /\ obs[r].verifier_calls = 1

\* the text the verification pass handed on
Checked(r) ==
    IF IsPost(r) THEN loc[r].check_result.factchecked_content
    ELSE loc[r].check_result.checked_content

VerifierFailedNote(r) ==
    IF IsPost(r) THEN <<"Fact-checker failed">> ELSE <<"Source-checker failed">>

\* C3: when the verification pass (fact_check / source_check) fails, the
\* editor returns the original draft as proofed_content, the verifier-failed
\* note as corrections, estimated_cost 0 and an empty usage, and the prose
\* pass is not invoked
C3_VerifierFailure ==
    \A r \in Runs :
        (Edited(r) /\ loc[r].check_result = None)
            => /\ loc[r].editor_result.proofed_content = loc[r].content
               /\ loc[r].editor_result.corrections = VerifierFailedNote(r)
               /\ loc[r].editor_result.estimated_cost = 0
               /\ DOMAIN loc[r].editor_result.usage = {}
               /\ obs[r].prose_calls = 0

\* the verification pass of a post-event run failed on a draft of the writer
C3_Witness ==
    \E r \in Runs :
        /\ Edited(r) /\ loc[r].check_result = None
        /\ IsPost(r)
        /\ loc[r].content \in WriterTexts
        /\ loc[r].editor_result.proofed_content = loc[r].content

\* C4: when the verification pass succeeds and the prose pass fails, the
\* editor returns the verification pass's corrected text as proofed_content,
\* the verification issues as corrections and the verification pass's cost
\* as estimated_cost
C4_ProseFailure ==
    \A r \in Runs :
        (Edited(r) /\ loc[r].check_result # None
                   /\ obs[r].prose_calls = 1 /\ loc[r].prose_result = None)
            => /\ loc[r].editor_result.proofed_content = Checked(r)
               /\ loc[r].editor_result.corrections = loc[r].check_result.issues
               /\ loc[r].editor_result.estimated_cost
                      = loc[r].check_result.usage.estimated_cost

\* the prose pass failed after a verification pass that listed issues and
\* changed the draft
C4_Witness ==
    \E r \in Runs :
        /\ Edited(r) /\ loc[r].check_result # None
        /\ obs[r].prose_calls = 1 /\ loc[r].prose_result = None
        /\ IsPost(r)
        /\ loc[r].check_result.issues # <<>>
        /\ loc[r].editor_result.proofed_content # loc[r].content
        /\ loc[r].editor_result.estimated_cost > 0

\* C5: when both passes succeed, the editor returns the prose pass's output
\* as proofed_content, the verification issues as corrections, the sum of
\* the two costs as estimated_cost and the sums of the two passes' token
\* counts as total input / output tokens
C5_BothPasses ==
    \A r \in Runs :
        (Edited(r) /\ loc[r].check_result # None
                   /\ obs[r].prose_calls = 1 /\ loc[r].prose_result # None)
            => LET fc == loc[r].check_result
                   pe == loc[r].prose_result
                   er == loc[r].editor_result
               IN /\ er.proofed_content = pe.polished_content
                  /\ er.corrections = fc.issues
                  /\ er.estimated_cost = fc.usage.estimated_cost + pe.usage.estimated_cost
                  /\ er.usage.total_input_tokens
                         = fc.usage.input_tokens + pe.usage.input_tokens
                  /\ er.usage.total_output_tokens
                         = fc.usage.output_tokens + pe.usage.output_tokens

\* both passes of a pre-event run succeeded, each at a cost
C5_Witness ==
    \E r \in Runs :
        /\ Edited(r) /\ loc[r].check_result # None
        /\ obs[r].prose_calls = 1 /\ loc[r].prose_result # None
        /\ IsPre(r)
        /\ loc[r].check_result.usage.estimated_cost > 0
        /\ loc[r].prose_result.usage.estimated_cost > 0
        /\ loc[r].editor_result.proofed_content \in ProseTexts

-----------------------------------------------------------------------------
(* Stage failures of process_event *)

\* process_event has returned to its caller (it did not raise)
Returned(r) == pc[r] = "returned" /\ obs[r].ret \in {"True", "False"}

\* the record of the (event, type) key the run was started for
Record(r) == Row(commentary, job[r].evt, job[r].ctype)
HasRecord(r) == Select(commentary, job[r].evt, job[r].ctype) # {}

NoEditorCall(r) == obs[r].verifier_calls = 0 /\ obs[r].prose_calls = 0

\* C6: in post-event processing, when the writer has succeeded and the
\* fact-checker fails, the step that ends the run leaves the record proofed
\* with content and proofed_content both the writer's draft and the
\* corrections note "Fact-checker failed", and process_event returns True
C6_VerifierFailurePersisted ==
    [][\A r \in Runs :
          (/\ pc[r] = "fact_check" /\ IsPost(r) /\ job[r].ctype = "post_event"
           /\ loc[r].content \in WriterTexts
           /\ pc'[r] = "returned"
           /\ obs'[r].verifier_calls = obs[r].verifier_calls + 1)
              => /\ Select(commentary', job[r].evt, "post_event") # {}
                 /\ LET row == Row(commentary', job[r].evt, "post_event")
                    IN /\ row.status = "proofed"
                       /\ row.content = loc[r].content
                       /\ row.proofed_content = loc[r].content
                       /\ row.corrections = <<"Fact-checker failed">>
                 /\ obs'[r].ret = "True"]_vars

\* a post-event run has ended on a failed fact-check with its draft persisted
C6_Witness ==
    \E r \in Runs :
        /\ Returned(r) /\ IsPost(r) /\ job[r].ctype = "post_event"
        /\ obs[r].writer_calls = 1 /\ obs[r].verifier_calls = 1
        /\ loc[r].check_result = None
        /\ HasRecord(r)
        /\ Record(r).status = "proofed"
        /\ Record(r).content = loc[r].content
        /\ Record(r).corrections = <<"Fact-checker failed">>

\* C7: pre-event processing that scraped no article marks the record failed
\* with the reason "No preview sources found", returns False, never writes
\* status writing and calls neither the writer nor the editor
C7_NoPreviewSources ==
    \A r \in Runs :
        (Returned(r) /\ IsPre(r) /\ obs[r].scrapes = 1 /\ loc[r].articles = <<>>)
            => /\ HasRecord(r)
               /\ Record(r).status = "failed"
               /\ Record(r).error_message.text = "No preview sources found"
               /\ obs[r].ret = "False"
               /\ "writing" \notin Range(obs[r].writes)
               /\ obs[r].writer_calls = 0
               /\ NoEditorCall(r)

\* a pre-event run has returned after a scrape that found nothing
C7_Witness ==
    \E r \in Runs :
        /\ Returned(r) /\ IsPre(r) /\ obs[r].scrapes = 1 /\ loc[r].articles = <<>>
        /\ obs[r].writes = <<"scraping", "failed">>

ResultsOnlyDocument(r) ==
    LET resolved_data == resolve_sources(job[r].evt)
    IN <<ContextSection(resolved_data), ResultsSection(resolved_data),
         [header |-> "=== NO SOURCES FOUND ==="]>>

\* C8: post-event processing that scraped no article does not fail for it:
\* the consolidated document is built from the results alone, status writing
\* is written and the writer is called; a failed status after that comes
\* from the writer or from an exception only
C8_EmptyArticlesProceed ==
    \A r \in Runs :
        (IsPost(r) /\ obs[r].scrapes = 1 /\ loc[r].articles = <<>>)
            => /\ loc[r].consolidated = ResultsOnlyDocument(r)
               /\ "writing" \in Range(obs[r].writes)
               /\ pc[r] = "write" => (HasRecord(r) /\ Record(r).status = "writing")
               /\ obs[r].writer_calls = 0
                     => (pc[r] = "write" \/ obs[r].ret \in {"raised", "uncaught"})
               /\ "failed" \in Range(obs[r].writes)
                     => (obs[r].writer_calls = 1 \/ obs[r].ret = "raised")

\* the writer was called on a document built without any article
C8_Witness ==
    \E r \in Runs :
        /\ IsPost(r) /\ obs[r].scrapes = 1 /\ loc[r].articles = <<>>
        /\ obs[r].writer_calls = 1
        /\ loc[r].content \in WriterTexts

\* C9: when the event is in no schedule_units row (source resolution fails),
\* process_event leaves the record failed and returns False, having made no
\* scrape, writer or editor call and no scraping / writing status write
C9_ResolutionFailure ==
    \A r \in Runs :
        (Returned(r) /\ IsPost(r) /\ job[r].evt \notin ScheduleUnits)
            => /\ HasRecord(r)
               /\ Record(r).status = "failed"
               /\ obs[r].ret = "False"
               /\ obs[r].scrapes = 0
               /\ obs[r].writer_calls = 0
               /\ NoEditorCall(r)
               /\ obs[r].writes = <<"failed">>

\* process_event has returned for an event code that does not exist
C9_Witness ==
    \E r \in Runs :
        /\ Returned(r) /\ IsPost(r) /\ job[r].evt = UnknownCode
        /\ obs[r].ret = "False"
        /\ Record(r).status = "failed"

\* no row that existed when process_event was entered has other texts now,
\* and no row created since has any
TextsUnchanged(r) ==
    \A i \in 1..Len(commentary) :
        IF i <= Len(obs[r].before)
        THEN /\ commentary[i].content = obs[r].before[i].content
             /\ commentary[i].proofed_content = obs[r].before[i].proofed_content
        ELSE /\ commentary[i].content = NULL
             /\ commentary[i].proofed_content = NULL

\* C10: when the writer fails, either orchestrator marks the record failed
\* with the reason "Writer LLM call failed", returns False, calls no editor
\* pass, has called the writer exactly once, and leaves the persisted
\* content and proofed_content as they were
C10_WriterFailure ==
    \A r \in Runs :
        (Returned(r) /\ obs[r].writer_calls >= 1 /\ loc[r].content = NULL)
            => /\ HasRecord(r)
               /\ Record(r).status = "failed"
               /\ Record(r).error_message.text = "Writer LLM call failed"
               /\ obs[r].ret = "False"
               /\ NoEditorCall(r)
               /\ obs[r].writer_calls = 1
               /\ TextsUnchanged(r)

\* the writer failed in a run on a record that already held a commentary
C10_Witness ==
    \E r \in Runs :
        /\ Returned(r) /\ obs[r].writer_calls = 1 /\ loc[r].content = NULL
        /\ Record(r).status = "failed"
        /\ \E i \in Select(obs[r].before, job[r].evt, job[r].ctype) :
              obs[r].before[i].content \in WriterTexts

-----------------------------------------------------------------------------
(* Failed records *)

\* C11: every record whose status is failed holds a non-empty error_message,
\* also when the failure was the first write of its (event, type) key and
\* when it was written by the batch exception handler
C11_FailedHasReason ==
    \A i \in 1..Len(commentary) :
        commentary[i].status = "failed" => Truthy(commentary[i].error_message)

-----------------------------------------------------------------------------
(* The status state machine *)

\* position of a status on pending -> scraping -> writing -> proofed -> published
StatusRank(s) ==
    CASE s = "pending" -> 0
      [] s = "scraping" -> 1
      [] s = "writing" -> 2
      [] s = "proofed" -> 3
      [] s = "published" -> 4
      [] OTHER -> -1

\* one change of a record's status that the state machine allows: a move
\* forward on the chain, a jump to failed from a non-terminal status, or the
\* restart of a failed record
Forward(old, new) ==
    \/ new = old
    \/ old = "failed" /\ new \in {"scraping", "failed"}
    \/ new = "failed" /\ old # "published"
    \/ StatusRank(old) >= 0 /\ StatusRank(new) > StatusRank(old)

\* C12: over any sequence of orchestrator invocations the status of a record
\* only moves forward on pending -> scraping -> writing -> proofed ->
\* published or jumps to failed from a non-terminal status; it never moves
\* from a later status back to an earlier one
C12_StatusMonotone ==
    [][\A i \in 1..Len(commentary) :
          Forward(commentary[i].status, commentary'[i].status)]_vars

-----------------------------------------------------------------------------
(* What the Scheduler hands to the orchestrators *)

\* the Scheduler's batch loop has just called process_event for job[r].evt
Handed(r) == InBatch(r) /\ pc[r] \in {"resolve", "start"}

\* the statuses the record of run r's key had when process_event was entered
StatusAtEntry(r) ==
    {obs[r].before[i].status : i \in Select(obs[r].before, job[r].evt, job[r].ctype)}

InWindow(e, ct) ==
    IF ct = "post_event" THEN HasResults(e) /\ StartedInLast24h(e) ELSE StartsInNext24h(e)

\* the record of (e, ct) exists and is failed
IsFailed(e, ct) ==
    /\ Select(commentary, e, ct) # {}
    /\ \A i \in Select(commentary, e, ct) : commentary[i].status = "failed"

SchedulerType(r) == IF job[r].driver = "run_post_events" THEN "post_event" ELSE "pre_event"

C15_TerminalNotReprocessed ==
    \A r \in Runs :
        Handed(r) => StatusAtEntry(r) \cap {"published", "failed"} = {}

\* the columns a status write may change
StatusColumns == {"status", "error_message"}

\* C16: a step that sets a record to failed changes only its status and
\* error_message; content, proofed_content, sources, the source snapshot and
\* the model, token and cost columns keep their previous values
C16_FailedKeepsContent ==
    [][\A i \in 1..Len(commentary) :
          (commentary'[i].status = "failed" /\ commentary'[i] # commentary[i])
              => \A f \in DOMAIN commentary[i] \ StatusColumns :
                    commentary'[i][f] = commentary[i][f]]_vars

\* a record that held a proofed commentary and its sources is now failed
C16_Witness ==
    \E i \in 1..Len(commentary) :
        /\ commentary[i].status = "failed"
        /\ commentary[i].content \in WriterTexts
        /\ commentary[i].proofed_content # NULL
        /\ commentary[i].sources # NULL
        /\ commentary[i].commentary_type = "pre_event"

-----------------------------------------------------------------------------
(* Exceptions in a batch *)

\* C17: when processing one event of a Scheduler batch raises, the event is
\* recorded as failed with a non-empty error message of at most 500
\* characters, the failure count is incremented, and the loop goes on with
\* the remaining events
C17_BatchSurvivesException ==
    [][\A r \in Runs :
          (/\ InBatch(r) /\ pc[r] \in InFlight
           /\ pc'[r] = "returned" /\ obs'[r].ret \notin {"True", "False"})
              => /\ Select(commentary', job[r].evt, job[r].ctype) # {}
                 /\ LET row == Row(commentary', job[r].evt, job[r].ctype)
                    IN /\ row.status = "failed"
                       /\ Truthy(row.error_message)
                       /\ row.error_message.len <= 500
                 /\ tally'[r].failed = tally[r].failed + 1
                 /\ obs'[r].ret = "raised"
                 /\ job'[r].queue = job[r].queue]_vars

-----------------------------------------------------------------------------
(* Interruption *)

\* the statuses of the records of key (e, ct)
StatusOf(e, ct) == {commentary[i].status : i \in Select(commentary, e, ct)}

\* the exclusion set the spec gives for commentary type ct
SpecExclusion(ct) ==
    IF ct = "post_event" THEN {"published", "proofed", "writing", "analyzing"}
    ELSE {"proofed", "published", "writing"}

\* an in-window event is returned by the eligibility query of a type exactly
\* when no record of that key is in the type's exclusion set
OfferedUnlessExcluded ==
    \A e \in ScheduleUnits : \A ct \in CommentaryTypes :
        InWindow(e, ct)
            => (e \in Pending(ct) <=> StatusOf(e, ct) \cap SpecExclusion(ct) = {})

\* C18: an interruption in the middle of an event leaves every record as it
\* was last written, and an in-window event is offered by the next
\* eligibility query exactly when its record's status is not in the type's
\* exclusion set (a record left in scraping is offered, one left in writing
\* is not)
C18_InterruptionResumable ==
    [][/\ \A r \in Runs :
             (pc[r] \in InFlight /\ pc'[r] = "idle") => commentary' = commentary
       /\ OfferedUnlessExcluded
       /\ OfferedUnlessExcluded']_vars

\* the Scheduler has handed over an event whose record an interrupted run
\* had left in scraping
C18_Witness ==
    \E r \in Runs :
        /\ Handed(r) /\ StatusAtEntry(r) = {"scraping"}
        /\ job[r].driver = "run_post_events"

-----------------------------------------------------------------------------
(* source_scraper.scrape_for_event, followed one search or fetch at a time *)

MAX_ARTICLES_PER_QUERY == 3
MAX_TOTAL_ARTICLES == 12
MaxDomainCount == 2

SKIP_DOMAINS ==
    {"youtube.com", "twitter.com", "x.com", "facebook.com", "instagram.com",
     "tiktok.com", "reddit.com", "pinterest.com", "linkedin.com"}

\* a result link: netloc is "www." + host or host alone
Url(www, host, path) == [www |-> www, host |-> host, path |-> path]

\* urlparse(url).netloc.replace('www.', '')
DomainOf(url) == url.host

\* the hosts the search results come from: one of its own per query, and one
\* that query q shares with query q + 1
OwnHost(q) == <<"p1.com", "p2.com", "p3.com", "p4.com", "p5.com", "p6.com", "p7.com">>[q]
SharedHost(q) == <<"s0.com", "s1.com", "s2.com", "s3.com", "s4.com", "s5.com", "s6.com", "s7.com">>[q + 1]

\* what search_serpapi returns for query q when the search succeeds: a link
\* the previous query also returned, links of the shared and the own hosts
\* with and without www, and a video link
OrganicResults(q) ==
    <<Url(FALSE, SharedHost(q - 1), 5),
      Url(FALSE, SharedHost(q - 1), 6),
      Url(FALSE, OwnHost(q), 1),
      Url(TRUE, OwnHost(q), 1),
      Url(FALSE, OwnHost(q), 2),
      Url(FALSE, SharedHost(q), 5),
      Url(TRUE, "youtube.com", 1),
      Url(FALSE, SharedHost(q), 7)>>

\* search_serpapi: [] on a missing key or a failed request
SearchOutcomes(q) == {<<>>, OrganicResults(q)}

\* pages that may fail to download or come out shorter than 200 characters
Flaky(url) == url.path \in {1, 2, 5}

\* a fetcher that downloads whatever link it is given
FetchOutcomes_no_skip(url) ==
    {[article |-> [url |-> url, domain |-> DomainOf(url)], downloaded |-> TRUE]}
    \cup (IF Flaky(url) THEN {[article |-> None, downloaded |-> TRUE]} ELSE {})

\* fetch_article_text: None without a download for a skipped domain; else the
\* page is downloaded and the article or None (failed, too short) is returned
FetchOutcomes(url) ==
    IF DomainOf(url) \in SKIP_DOMAINS THEN {[article |-> None, downloaded |-> FALSE]}
    ELSE {[article |-> [url |-> url, domain |-> DomainOf(url)], downloaded |-> TRUE]}
         \cup (IF Flaky(url) THEN {[article |-> None, downloaded |-> TRUE]} ELSE {})

\* a duplicate check against the accepted articles only
AlreadySeen_accepted_only(s, url) ==
    \E i \in 1..Len(s.all_articles) : s.all_articles[i].url = url

\* the exact-URL duplicate check
AlreadySeen(s, url) == url \in s.seen_urls

\* the per-query ceiling check at the top of the result loop
QueryFull(s) == s.articles_from_query >= MAX_ARTICLES_PER_QUERY

\* a ceiling that is never reached
TotalFull_never(s) == FALSE

\* the total ceiling check at the top of the result loop
TotalFull(s) == Len(s.all_articles) >= MAX_TOTAL_ARTICLES

\* a domain cap that counts the articles of the current query only
DomainFull_per_query(s, domain) ==
    /\ domain \in s.seen_domains
    /\ Cardinality({i \in 1..Len(s.all_articles) :
                       /\ s.all_articles[i].domain = domain
                       /\ s.all_articles[i].query = s.qi}) >= MaxDomainCount

\* the domain-diversity check: two articles of this domain are already in
DomainFull(s, domain) ==
    /\ domain \in s.seen_domains
    /\ Cardinality({i \in 1..Len(s.all_articles) :
                       s.all_articles[i].domain = domain}) >= MaxDomainCount

\* scrape_for_event is entered with a resolver output of nq queries
ScrapeEntered(nq) ==
    [pc |-> "search", nq |-> nq, qi |-> 1, results |-> <<>>,
     all_articles |-> <<>>, seen_urls |-> {}, seen_domains |-> {},
     articles_from_query |-> 0, fetched |-> <<>>, downloaded |-> <<>>, repeated |-> {}]

InitScrape ==
    /\ commentary = <<>>
    /\ pc = [r \in Runs |-> "idle"]
    /\ job = [r \in Runs |-> NoJob]
    /\ loc = [r \in Runs |-> NoLoc]
    /\ obs = [r \in Runs |-> NoObs]
    /\ tally = [r \in Runs |-> NoTally]
    /\ invocations = 0
    /\ \E nq \in 0..MaxQueries : scraper = ScrapeEntered(nq)
    /\ resolver = NoResolve
    /\ editor = NoEdit
    /\ schedule = BaseSchedule
    /\ writes = [r \in Runs |-> NoWrite]

\* the next query is searched, or there is none and all_articles is returned
Searched ==
    /\ scraper.pc = "search"
    /\ IF scraper.qi > scraper.nq
       THEN scraper' = [scraper EXCEPT !.pc = "done"]
       ELSE \E results \in SearchOutcomes(scraper.qi) :
               scraper' = [scraper EXCEPT !.pc = "result", !.results = results,
                                          !.articles_from_query = 0]

\* the loop leaves the current query (break, or no result is left)
NextQuery == [scraper EXCEPT !.pc = "search", !.qi = @ + 1, !.results = <<>>]

\* one iteration of the result loop
Fetched ==
    /\ scraper.pc = "result"
    /\ IF scraper.results = <<>> \/ QueryFull(scraper) \/ TotalFull(scraper)
       THEN scraper' = NextQuery
       ELSE LET url == Head(scraper.results)
                domain == DomainOf(url)
                rest == [scraper EXCEPT !.results = Tail(@)]
            IN IF AlreadySeen(scraper, url)
               THEN scraper' = [rest EXCEPT !.repeated = @ \cup {url}]
               ELSE IF DomainFull(scraper, domain)
               THEN scraper' = rest
               ELSE \E outcome \in FetchOutcomes(url) :
                       LET article == outcome.article
                           tried == [rest EXCEPT
                                       !.seen_urls = @ \cup {url},
                                       !.fetched = Append(@, url),
                                       !.downloaded = IF outcome.downloaded
                                                      THEN Append(@, url) ELSE @]
                       IN IF article # None
                          THEN scraper' =
                                  [tried EXCEPT
                                     !.all_articles =
                                         Append(@, [url |-> url, domain |-> article.domain,
                                                    query |-> scraper.qi]),
                                     !.seen_domains = @ \cup {domain},
                                     !.articles_from_query = @ + 1]
                          ELSE scraper' = tried

NextScrape ==
    /\ Searched \/ Fetched
    /\ UNCHANGED <<commentary, pc, job, loc, obs, tally, invocations, resolver, editor, schedule, writes>>

SpecScrape == InitScrape /\ [][NextScrape]_vars

\* the articles of the call, accepted so far or returned
Articles == IF scraper.pc = "none" THEN <<>> ELSE scraper.all_articles

\* C19: scrape_for_event never holds more than 12 articles in total nor more
\* than 3 articles found by one query, whatever the searches return and
\* whichever fetches fail
C19_ArticleCeilings ==
    /\ Len(Articles) <= 12
    /\ \A q \in 1..MaxQueries :
          Cardinality({i \in 1..Len(Articles) : Articles[i].query = q}) <= 3

\* the call returned 12 articles although more links were tried than that
C19_Witness ==
    /\ scraper.pc = "done"
    /\ Len(scraper.all_articles) = 12
    /\ Len(scraper.fetched) > 12
    /\ \E q \in 1..MaxQueries :
          Cardinality({i \in 1..Len(Articles) : Articles[i].query = q}) = 3

\* C20: scrape_for_event never holds more than two articles of the same
\* domain, counted over all the queries of the event
C20_DomainCap ==
    \A d \in {Articles[i].domain : i \in 1..Len(Articles)} :
        Cardinality({i \in 1..Len(Articles) : Articles[i].domain = d}) <= 2

\* two articles of one domain were found by two different queries
C20_Witness ==
    \E i, j \in 1..Len(Articles) :
        /\ i # j
        /\ Articles[i].domain = Articles[j].domain
        /\ Articles[i].query # Articles[j].query


\* ---------------------------------------------------------------------------
\* C21..C22: what one scrape_for_event call fetches
\* ---------------------------------------------------------------------------

\* the links handed to fetch_article_text so far, in call order
Fetches == IF scraper.pc = "none" THEN <<>> ELSE scraper.fetched

\* the links whose page was requested over the network so far
Downloads == IF scraper.pc = "none" THEN <<>> ELSE scraper.downloaded

\* the links that came back from a search after they had been tried
Repeated == IF scraper.pc = "none" THEN {} ELSE scraper.repeated

Accepted(url) == \E i \in 1..Len(Articles) : Articles[i].url = url

Candidates ==
    IF scraper.pc = "result" /\ scraper.results # <<>>
    THEN {Head(scraper.results)} ELSE {}

Skipped(url) == DomainOf(url) \in SKIP_DOMAINS

\* C22: no link of a SKIP_DOMAINS domain is requested over the network or
\* held in the article list of scrape_for_event, and the step that looks at
\* such a link leaves the per-query count and the article list as they were.
C22_SkipDomains ==
    /\ [](/\ \A i \in 1..Len(Downloads) : ~Skipped(Downloads[i])
          /\ \A i \in 1..Len(Articles) : Articles[i].domain \notin SKIP_DOMAINS
          /\ \A i \in 1..Len(Articles) : ~Skipped(Articles[i].url))
    /\ [][\A url \in Candidates :
             Skipped(url) /\ scraper'.qi = scraper.qi
                => /\ scraper'.articles_from_query = scraper.articles_from_query
                   /\ scraper'.all_articles = scraper.all_articles]_vars

\* a link of a skipped domain was handed to the fetcher, which returned
\* without a download, and the query went on to accept a later link
C22_Witness ==
    /\ \E i \in 1..Len(Fetches) :
          /\ Skipped(Fetches[i])
          /\ i < Len(Fetches)
          /\ Accepted(Fetches[Len(Fetches)])
    /\ Len(Downloads) < Len(Fetches)


\* ---------------------------------------------------------------------------
\* resolve_sources and the documents built from its output, on any results table
\* ---------------------------------------------------------------------------

\* result rows per event
MaxRows == 3

Nocs == {"JPN", "USA", "NOR"}

\* the rows a results table can hold for one competitor's country: a medal
\* row of each tier, a first place without medal, a win, a loss, a lower place
RowsOf(noc) ==
    {ResultRow(noc, 1, "ME_GOLD", ""), ResultRow(noc, 2, "ME_SILVER", ""),
     ResultRow(noc, 3, "ME_BRONZE", ""), ResultRow(noc, 1, "", ""),
     ResultRow(noc, 0, "", "W"), ResultRow(noc, 0, "", "L"), ResultRow(noc, 4, "", "")}

ResultRows == UNION {RowsOf(noc) : noc \in Nocs}

\* ORDER BY CASE medal_type ... END, position NULLS LAST
MedalRank(row) ==
    IF row.medal_type = "ME_GOLD" THEN 1
    ELSE IF row.medal_type = "ME_SILVER" THEN 2
    ELSE IF row.medal_type = "ME_BRONZE" THEN 3 ELSE 4
PositionRank(row) == IF row.position = 0 THEN 99 ELSE row.position
InOrder(a, b) ==
    \/ MedalRank(a) < MedalRank(b)
    \/ MedalRank(a) = MedalRank(b) /\ PositionRank(a) <= PositionRank(b)

\* every list of rows the results query can return, ties in any order
ResultLists ==
    {s \in UNION {[1..n -> ResultRows] : n \in 0..MaxRows} :
        \A i \in 1..Len(s) : \A j \in i..Len(s) : InOrder(s[i], s[j])}

\* what get_event_context can return: None, or a context with either medal flag
Contexts == {None} \cup {[medal_flag |-> f, results |-> s] : f \in {0, 1}, s \in ResultLists}

\* the article lists handed to the document builders
ArticleLists == {<<>>, <<Article(1)>>, <<Article(1), Article(2)>>, <<Article(2), Article(1)>>}

ResolveEntered(kind, context) ==
    [pc |-> kind, context |-> context, resolved |-> None, articles |-> <<>>,
     document |-> <<>>, results_text |-> None]

InitResolve ==
    /\ commentary = <<>>
    /\ pc = [r \in Runs |-> "idle"]
    /\ job = [r \in Runs |-> NoJob]
    /\ loc = [r \in Runs |-> NoLoc]
    /\ obs = [r \in Runs |-> NoObs]
    /\ tally = [r \in Runs |-> NoTally]
    /\ invocations = 0
    /\ scraper = NoScrape
    /\ editor = NoEdit
    /\ schedule = BaseSchedule
    /\ writes = [r \in Runs |-> NoWrite]
    /\ \/ \E context \in Contexts : resolver = ResolveEntered("resolve", context)
       \/ resolver = ResolveEntered("preview", None)

\* resolve_sources returns
Resolved ==
    /\ resolver.pc = "resolve"
    /\ LET resolved == resolve_context("E1", resolver.context)
       IN resolver' = [resolver EXCEPT !.resolved = resolved,
                                       !.pc = IF resolved = None THEN "not_found" ELSE "resolved"]

\* pipeline_orchestrator.process_event builds the consolidated file from the
\* resolver's output and the scraped articles
Consolidated ==
    /\ resolver.pc = "resolved"
    /\ \E articles \in ArticleLists :
          resolver' = [resolver EXCEPT
                          !.articles = articles,
                          !.document = build_consolidated_file(resolver.resolved, articles),
                          !.pc = "consolidated"]

\* fact_check formats the results for its prompt
Formatted ==
    /\ resolver.pc = "consolidated"
    /\ resolver' = [resolver EXCEPT
                       !.results_text = format_results_for_editor(resolver.resolved),
                       !.pc = "formatted"]

\* intro_orchestrator builds the preview document from the scraped articles
PreviewConsolidated ==
    /\ resolver.pc = "preview"
    /\ \E articles \in ArticleLists :
          resolver' = [resolver EXCEPT
                          !.articles = articles,
                          !.document = build_preview_consolidated("E2", articles),
                          !.pc = "preview_consolidated"]

NextResolve ==
    /\ Resolved \/ Consolidated \/ Formatted \/ PreviewConsolidated
    /\ UNCHANGED <<commentary, pc, job, loc, obs, tally, invocations, scraper, editor, schedule, writes>>

SpecResolve == InitResolve /\ [][NextResolve]_vars

Headers(document) == [i \in 1..Len(document) |-> document[i].header]

\* C23: the post-event document is the event-context block with its lines,
\* then the results block holding the resolver's rows, then one source block
\* per article in list order, or the no-sources marker alone exactly when
\* there is no article; the preview document carries the marker exactly when
\* its article list is empty.
C23_DocumentSections ==
    LET document == resolver.document
        articles == resolver.articles
    IN /\ resolver.pc \in {"consolidated", "formatted"} =>
             /\ Len(document) >= 3
             /\ document[1].header = "=== EVENT CONTEXT ===" /\ document[1].lines # <<>>
             /\ document[2].header = "=== RESULTS (from database - ground truth) ==="
             /\ document[2].rows = resolver.context.results
             /\ IF articles = <<>>
                THEN SubSeq(Headers(document), 3, Len(document)) = <<"=== NO SOURCES FOUND ===">>
                ELSE /\ Len(document) = 2 + Len(articles)
                     /\ \A i \in 1..Len(articles) :
                           /\ document[2 + i].header = "=== SOURCE ==="
                           /\ document[2 + i].index = i
                           /\ document[2 + i].article = articles[i]
       /\ resolver.pc = "preview_consolidated" =>
             /\ document[1].header = "=== EVENT CONTEXT ===" /\ document[1].lines # <<>>
             /\ Contains(Headers(document), "=== NO SOURCES FOUND ===") <=> articles = <<>>

\* the document of an event without results and without articles was built
C23_Witness ==
    /\ resolver.pc = "consolidated"
    /\ resolver.context.results = <<>>
    /\ resolver.articles = <<>>
    /\ Len(resolver.document) = 3


\* the resolver's output, once resolve_sources has returned one
HasResolved == resolver.pc \in {"resolved", "consolidated", "formatted"}

Queries == resolver.resolved.queries

\* the queries that carry the given NOC
QueriesFor(noc) == {i \in 1..Len(Queries) : Queries[i].type # "general" /\ Queries[i].noc = noc}

\* the country queries, by position in the query list
CountryQueries == {i \in 1..Len(Queries) : Queries[i].type = "country"}

MedalRows(results) == {i \in 1..Len(results) : results[i].medal_type # ""}

\* the NOC of each medal tier: that of the tier's first row
TierNocs(results) ==
    {results[FirstRow({i \in MedalRows(results) : results[i].medal_type = mt})].noc :
        mt \in {results[i].medal_type : i \in MedalRows(results)}}

\* the rows of the scenario: gold and silver for JPN, bronze for USA
SharedTierRows ==
    <<ResultRow("JPN", 1, "ME_GOLD", ""), ResultRow("JPN", 2, "ME_SILVER", ""),
      ResultRow("USA", 3, "ME_BRONZE", "")>>

\* C24: for an event with medal rows the query list holds exactly one country
\* query for each distinct NOC of the medal tiers and no two country queries
\* with one NOC; gold JPN, silver JPN, bronze USA gives general, JPN, USA.
C24_OneQueryPerMedalNoc ==
    (HasResolved /\ MedalRows(resolver.context.results) # {}) =>
        /\ {Queries[i].noc : i \in CountryQueries} = TierNocs(resolver.context.results)
        /\ \A i, j \in CountryQueries : Queries[i].noc = Queries[j].noc => i = j
        /\ resolver.context.results = SharedTierRows =>
              Queries = <<[type |-> "general"], CountryQuery("gold", "JPN"),
                          CountryQuery("bronze", "USA")>>

\* the scenario was resolved: two tiers of one country gave three queries
C24_Witness ==
    /\ resolver.pc = "resolved"
    /\ resolver.context.results = SharedTierRows
    /\ Len(Queries) = 3

\* C25: the USA-angle query is absent when a country query carries NOC USA
\* and present once otherwise, so every query list has exactly one query
\* with NOC USA.
C25_OneUsaQuery ==
    HasResolved =>
        /\ Cardinality(QueriesFor("USA")) = 1
        /\ Cardinality({i \in 1..Len(Queries) : Queries[i].type = "usa"})
              = (IF \E i \in CountryQueries : Queries[i].noc = "USA" THEN 0 ELSE 1)

\* USA won a medal and the list was returned with its country query only
C25_Witness ==
    /\ resolver.pc = "resolved"
    /\ \E i \in CountryQueries : Queries[i].noc = "USA"
    /\ \A i \in 1..Len(Queries) : Queries[i].type # "usa"

\* C26: an event that has a schedule row and no result row resolves to the
\* general query followed by the USA-angle query, and the editor's formatting
\* of its results returns (an empty text) instead of raising.
C26_ZeroResultsResolve ==
    (resolver.pc \notin {"none", "preview", "preview_consolidated"}
        /\ resolver.context # None /\ resolver.context.results = <<>>) =>
        /\ resolver.pc # "not_found"
        /\ HasResolved =>
              /\ resolver.resolved # None
              /\ Queries = <<[type |-> "general"], [type |-> "usa", noc |-> "USA"]>>
        /\ resolver.pc = "formatted" => resolver.results_text = <<>>

\* the results of an event without result rows were formatted for the editor
C26_Witness ==
    /\ resolver.pc = "formatted"
    /\ resolver.context.results = <<>>
    /\ Len(Queries) = 2


\* C27: after a successful post-event run the record's input_tokens,
\* output_tokens and estimated_cost are those the writer reported for the
\* run, and llm_model and prompt_version are the writer's.
C27_WriterUsagePersisted ==
    \A r \in Runs :
        (IsPost(r) /\ job[r].ctype = "post_event" /\ ~job[r].dry_run
           /\ Returned(r) /\ obs[r].ret = "True") =>
            /\ HasRecord(r)
            /\ Record(r).input_tokens = loc[r].writer_usage.input_tokens
            /\ Record(r).output_tokens = loc[r].writer_usage.output_tokens
            /\ Record(r).estimated_cost = loc[r].writer_usage.estimated_cost
            /\ Record(r).llm_model = loc[r].writer_usage.model
            /\ Record(r).prompt_version = loc[r].writer_usage.prompt_version


\* the rows stored under (event, commentary_type)
RowsAt(tbl, e, ct) == {tbl[i] : i \in Select(tbl, e, ct)}

\* the step is taken by process_event call r or by the handler around it
StepOf(r) == pc[r] \in InFlight /\ (pc'[r] # pc[r] \/ obs'[r] # obs[r])

\* C28: every step of processing (event E, commentary type T), the save
\* step and the batch exception handlers included, leaves the rows of every
\* other key as they were: no row of E with the other type and no row of
\* another event is created or modified.
C28_WritesScopedToKey ==
    [][\A r \in Runs :
          StepOf(r) =>
             \A k \in Keys :
                k # <<job[r].evt, job[r].ctype>> =>
                   RowsAt(commentary', k[1], k[2]) = RowsAt(commentary, k[1], k[2])]_vars


\* Spec with every blocking call of a process_event call eventually returning
\* or raising: weak fairness of the stage steps of the running call, which are
\* enabled exactly while the call is in one of its stages
SpecFair ==
    Spec /\ ([]<>(pc["r1"] \notin InFlight) \/ []<><<StepOf("r1")>>_vars)

\* C29: no stage is retried: a process_event call leaves its stages after
\* finitely many steps, and by then it has called the resolver, the writer,
\* the verification pass and the prose pass at most once each and searched
\* each query of its list at most once, whatever the collaborators returned.
C29_NoRetry ==
    /\ [](\A r \in Runs :
             /\ obs[r].resolver_calls <= 1
             /\ obs[r].scrapes <= 1
             /\ obs[r].writer_calls <= 1
             /\ obs[r].verifier_calls <= 1
             /\ obs[r].prose_calls <= 1
             /\ Cardinality(Range(obs[r].searched)) = Len(obs[r].searched)
             /\ Range(obs[r].searched) \subseteq 1..Len(obs[r].queries))
    /\ \A r \in Runs : (pc[r] \in InFlight) ~> (pc[r] \notin InFlight)

\* a post-event call returned after every stage had been called once
C29_Witness ==
    \E r \in Runs :
        /\ Returned(r) /\ IsPost(r)
        /\ obs[r].resolver_calls = 1 /\ obs[r].scrapes = 1 /\ obs[r].writer_calls = 1
        /\ obs[r].verifier_calls = 1 /\ obs[r].prose_calls = 1
        /\ obs[r].searched = <<1, 2, 3>>


\* the stages in which a search or a page fetch is in progress
ScrapingStages == {"scrape"}

\* the stages in which the writer or an editor pass is in progress
WritingStages == {"write", "fact_check", "source_check", "prose_edit"}

\* C30: while a search or page fetch of a process_event call is in progress
\* the stored status of the call's record is scraping, and while its writer
\* or an editor pass is in progress the stored status is writing: each
\* status write has committed before the stage it names starts.
C30_StatusBeforeStage ==
    \A r \in Runs :
        /\ pc[r] \in ScrapingStages => (HasRecord(r) /\ Record(r).status = "scraping")
        /\ pc[r] \in WritingStages => (HasRecord(r) /\ Record(r).status = "writing")


\* the number of queries scrape_for_event has sent to the search provider
SearchesSent ==
    IF scraper.pc = "none" THEN 0
    ELSE IF scraper.pc = "result" THEN scraper.qi ELSE scraper.qi - 1

\* C31: once the article list of a scrape_for_event call holds the maximum
\* total, the call sends no further query to the search provider and hands
\* no further link to the fetcher.
C31_StopsAtTotal ==
    [][Len(Articles) >= MAX_TOTAL_ARTICLES
          => (SearchesSent' = SearchesSent /\ Fetches' = Fetches)]_vars


-----------------------------------------------------------------------------
(* One edit_commentary / edit_intro call, with the verifier's output drawn   *)
(* character by character.                                                   *)

MaxLen == 7
Dash == "-"
Characters == {"c", WS, Dash}
VerifierOutputs == UNION {[1..n -> Characters] : n \in 1..MaxLen}

\* a text as '---' in text and text.split('---', 1) read it: the leftmost
\* three dashes in a row are the separator
RECURSIVE Tokens(_)
Tokens(text) ==
    IF text = <<>> THEN <<>>
    ELSE IF Len(text) >= 3 /\ text[1] = Dash /\ text[2] = Dash /\ text[3] = Dash
         THEN <<Sep>> \o Tokens(SubSeq(text, 4, Len(text)))
         ELSE <<Head(text)>> \o Tokens(Tail(text))

\* the characters of a text read that way
RECURSIVE Text(_)
Text(tokens) ==
    IF tokens = <<>> THEN <<>>
    ELSE (IF Head(tokens) = Sep THEN <<Dash, Dash, Dash>> ELSE <<Head(tokens)>>)
         \o Text(Tail(tokens))

\* the generator's response carrying the given output
ResponseOf(output) ==
    [text |-> Tokens(output), input_tokens |-> InputTokens(Tokens(output)),
     output_tokens |-> OutputTokens(Tokens(output))]

\* the corrected text of a verification result
CheckedContent(kind, result) ==
    IF kind = "commentary" THEN result.factchecked_content ELSE result.checked_content

\* a prose pass that is given the writer's draft
prose_edit_input_draft(draft, check_result_text) ==
    draft

\* the argument of prose_edit in edit_commentary / edit_intro
prose_edit_input(draft, check_result_text) ==
    check_result_text

\* edit_commentary / edit_intro entered: the verification pass is called
EditEntered(kind, draft) ==
    [pc |-> "verify", kind |-> kind, draft |-> draft,
     calls |-> <<[agent |-> "verifier", input |-> draft]>>,
     output |-> <<>>, check_result |-> None, editor_result |-> None]

InitEdit ==
    /\ commentary = <<>>
    /\ pc = [r \in Runs |-> "idle"]
    /\ job = [r \in Runs |-> NoJob]
    /\ loc = [r \in Runs |-> NoLoc]
    /\ obs = [r \in Runs |-> NoObs]
    /\ tally = [r \in Runs |-> NoTally]
    /\ invocations = 0
    /\ scraper = NoScrape
    /\ resolver = NoResolve
    /\ schedule = BaseSchedule
    /\ writes = [r \in Runs |-> NoWrite]
    /\ \E kind \in {"commentary", "intro"}, draft \in WriterTexts :
          editor = EditEntered(kind, draft)

\* fact_check / source_check fails: the fallback is returned, no prose pass
VerifierFailed ==
    /\ editor.pc = "verify"
    /\ editor' = [editor EXCEPT
          !.pc = "done",
          !.editor_result = IF editor.kind = "commentary"
                            THEN edit_commentary_fc_failed(editor.draft)
                            ELSE edit_intro_sc_failed(editor.draft)]

\* fact_check / source_check returns its parsed output, prose_edit is called
Verified ==
    /\ editor.pc = "verify"
    /\ \E output \in VerifierOutputs :
          LET result == IF editor.kind = "commentary"
                        THEN fact_check(ResponseOf(output))
                        ELSE source_check(ResponseOf(output))
          IN editor' = [editor EXCEPT
                !.pc = "prose",
                !.output = output,
                !.check_result = result,
                !.calls = Append(@, [agent |-> "prose",
                                     input |-> prose_edit_input(editor.draft,
                                                  CheckedContent(editor.kind, result))])]

\* prose_edit returns, edit_commentary / edit_intro returns
Polished ==
    /\ editor.pc = "prose"
    /\ \E response \in Responses(ProseTexts) :
          LET pe_result == prose_edit(response)
          IN editor' = [editor EXCEPT
                !.pc = "done",
                !.editor_result =
                    IF editor.kind = "commentary"
                    THEN IF pe_result = None
                         THEN edit_commentary_pe_failed(editor.check_result)
                         ELSE edit_commentary_both(editor.check_result, pe_result)
                    ELSE IF pe_result = None
                         THEN edit_intro_pe_failed(editor.check_result)
                         ELSE edit_intro_both(editor.check_result, pe_result)]

NextEdit ==
    /\ \/ VerifierFailed
       \/ Verified
       \/ Polished
    /\ UNCHANGED <<commentary, pc, job, loc, obs, tally, invocations, scraper, resolver, schedule, writes>>

SpecEdit == InitEdit /\ [][NextEdit]_vars

\* the verification pass of the call has returned a parsed output
HasChecked == editor.pc \in {"prose", "done"} /\ editor.check_result # None

\* the three characters at offset k of a text are the separator
SepAt(text, k) ==
    k + 3 <= Len(text) /\ text[k + 1] = Dash /\ text[k + 2] = Dash /\ text[k + 3] = Dash

HasSep(text) == \E k \in 0..Len(text) : SepAt(text, k)

\* issues and corrected text are I trimmed and T trimmed for the output
\* I + separator + T with I of length k
SplitsAt(k) ==
    /\ Text(editor.check_result.issues) = Strip(SubSeq(editor.output, 1, k))
    /\ Text(CheckedContent(editor.kind, editor.check_result))
          = Strip(SubSeq(editor.output, k + 4, Len(editor.output)))

\* an output without separator is the corrected text, whole, with no issues
WholeOutput ==
    ~HasSep(editor.output)
        => /\ editor.check_result.issues = <<>>
           /\ Text(CheckedContent(editor.kind, editor.check_result)) = editor.output

\* C32 as stated: for an output I + separator + T in which I contains no
\* separator, issues is I trimmed and the corrected text is T trimmed; for
\* an output without separator the corrected text is the whole output and
\* issues is empty.
C32_SplitAfterSeparatorFreePrefix ==
    HasChecked =>
        /\ \A k \in 0..Len(editor.output) :
              (SepAt(editor.output, k) /\ ~HasSep(SubSeq(editor.output, 1, k)))
                  => SplitsAt(k)
        /\ WholeOutput

\* C32: the verification pass splits its output at the leftmost occurrence
\* of the separator: for an output I + separator + T in which no separator
\* starts before the end of I, issues is I trimmed and the corrected text is
\* T trimmed, later separators staying in the corrected text; for an output
\* without separator the corrected text is the whole output and issues is
\* empty.  Both shapes yield a result.
C32_SplitOnFirstSeparator ==
    HasChecked =>
        /\ \A k \in 0..Len(editor.output) :
              (SepAt(editor.output, k) /\ \A j \in 0..(k - 1) : ~SepAt(editor.output, j))
                  => SplitsAt(k)
        /\ WholeOutput

\* an output with issues, a separator, and a corrected text that holds a
\* second separator has been parsed
C32_Witness ==
    /\ HasChecked
    /\ editor.output = <<"c", Dash, Dash, Dash, Dash, Dash, Dash>>
    /\ Text(editor.check_result.issues) = <<"c">>
    /\ Contains(CheckedContent(editor.kind, editor.check_result), Sep)


\* the calls of one agent made by the edit call
CallsOf(agent) == {i \in 1..Len(editor.calls) : editor.calls[i].agent = agent}

\* C33: in every edit_commentary / edit_intro call the verification pass
\* is invoked exactly once, first, on the writer's draft; the prose pass is
\* invoked at most once, after the verification pass returned a result, and
\* its input is the verification pass's corrected text.
C33_PassesSequential ==
    editor.pc # "none" =>
        /\ CallsOf("verifier") = {1}
        /\ editor.calls[1].input = editor.draft
        /\ Cardinality(CallsOf("prose")) <= 1
        /\ \A i \in CallsOf("prose") :
              /\ i = 2
              /\ editor.check_result # None
              /\ editor.calls[i].input = CheckedContent(editor.kind, editor.check_result)
        /\ (editor.pc = "done" /\ editor.check_result = None) => CallsOf("prose") = {}

\* an edit call has returned after both passes, the prose pass having been
\* given a corrected text that differs from the draft
C33_Witness ==
    /\ editor.pc = "done"
    /\ CallsOf("prose") = {2}
    /\ editor.calls[2].input # editor.draft
    /\ editor.calls[2].input = <<"c", WS, "c">>
    /\ editor.editor_result.proofed_content \in ProseTexts


-----------------------------------------------------------------------------
(* One Scheduler batch over a schedule drawn from small sets of rows *)

MaxUnits == 2
UnitCodes == <<"U1", "U2", "U3", "U4">>
MedalFlags == {0, 1, 3}
StartTimes == {1, 2}
UnitNames ==
    {NoName, Final, <<"T", "r", "a", "i", "n", "i", "n", "g">>,
     <<"P", "R", "A", "C", "T", "I", "C", "E">>, <<"W", "a", "r", "m", "-", "u", "p">>}

\* schedules of finished units with results, and of upcoming units; the
\* post-event query does not read event_unit_name
Schedules ==
    LET codes == {UnitCodes[i] : i \in 1..MaxUnits}
        finished == {Unit(f, s, "last24h", TRUE, Final) : f \in MedalFlags, s \in StartTimes}
        upcoming == {Unit(f, s, "next24h", FALSE, n) : f \in MedalFlags, s \in StartTimes, n \in UnitNames}
    IN [codes -> finished] \cup [codes -> upcoming]

\* the table after an earlier pre-event run for e that found no sources
AfterFailedPreview(e) ==
    update_status(update_status(<<>>, e, "scraping", NullMsg), e, "failed",
                  Msg("No preview sources found", 24))

InitSched ==
    /\ schedule \in Schedules
    /\ writes = [r \in Runs |-> NoWrite]
    /\ commentary \in {<<>>} \cup {AfterFailedPreview(UnitCodes[1]) : u \in {UnitCodes[1]} \cap {e \in DOMAIN schedule : schedule[e].window = "next24h"}}
    /\ pc = [r \in Runs |-> "idle"]
    /\ job = [r \in Runs |-> NoJob]
    /\ loc = [r \in Runs |-> NoLoc]
    /\ obs = [r \in Runs |-> NoObs]
    /\ tally = [r \in Runs |-> NoTally]
    /\ invocations = MaxInvocations - 1
    /\ scraper = NoScrape
    /\ resolver = NoResolve
    /\ editor = NoEdit

NextSched ==
    /\ Batch("r1") \/ Stage("r1")
    /\ UNCHANGED <<scraper, resolver, editor, schedule, writes>>

SpecSched == InitSched /\ [][NextSched]_vars


\* the units the batch of run r has handed to process_event, in order
HandedOrder(r) == tally[r].handed

\* C34: in one Scheduler batch no non-medal unit is handed to the
\* orchestrator before a medal unit, and among handed units with the same
\* medal flag the start times are non-decreasing.
C34_MedalFirstThenChronological ==
    \A r \in Runs : \A i, j \in 1..Len(HandedOrder(r)) :
        i < j =>
            LET a == HandedOrder(r)[i]
                b == HandedOrder(r)[j]
            IN /\ ~(MedalFlag(a) = 0 /\ MedalFlag(b) > 0)
               /\ MedalFlag(a) = MedalFlag(b) => StartTime(a) <= StartTime(b)

\* a batch has handed a medal unit and then a non-medal unit that starts earlier
C34_Witness ==
    /\ Len(HandedOrder("r1")) = 2
    /\ MedalFlag(HandedOrder("r1")[1]) > 0
    /\ MedalFlag(HandedOrder("r1")[2]) = 0
    /\ StartTime(HandedOrder("r1")[1]) > StartTime(HandedOrder("r1")[2])


\* the unit names that contain "training", "practice" or "warm", whatever
\* the case of their letters
TrainingNames == {n \in UnitNames : \E word \in SkipWords : In(lower(word), lower(n))}

\* a unit whose name says training, practice or warm-up
TrainingUnit(e) == UnitName(e) \in TrainingNames

\* no training unit has been handed over by a pre-event batch, and the
\* counters of the batch count its handed units
TrainingKeptOut ==
    \A r \in Runs :
        job[r].driver = "run_pre_events" =>
            /\ \A e \in ScheduleUnits :
                  TrainingUnit(e) => (e \notin Range(HandedOrder(r)) /\ job[r].evt # e)
            /\ tally[r].success + tally[r].failed
                  = Len(HandedOrder(r))
                      - (IF pc[r] \in InFlight \/ obs[r].ret = "uncaught" THEN 1 ELSE 0)

\* C35: in Scheduler pre-event processing a unit whose name contains
\* "training", "practice" or "warm" in any case is never handed to the
\* orchestrator, no step creates or changes a commentary record of that
\* unit, and the success and failure counters count handed units only (each
\* once its process_event call has ended, unless the batch died with it).
C35_TrainingNeverProcessed ==
    [][/\ TrainingKeptOut /\ TrainingKeptOut'
       /\ \A e \in ScheduleUnits : \A ct \in CommentaryTypes :
             TrainingUnit(e) => RowsAt(commentary', e, ct) = RowsAt(commentary, e, ct)]_vars

\* a pre-event batch has passed over a pending medal unit named in capitals
\* as a practice, which keeps its failed record, and has processed the unit
\* after it with success
C35_Witness ==
    /\ job["r1"].driver = "run_pre_events"
    /\ get_pre_event_pending(commentary) # <<>>
    /\ Head(get_pre_event_pending(commentary)) = "U1"
    /\ UnitName("U1") = <<"P", "R", "A", "C", "T", "I", "C", "E">>
    /\ RowsAt(commentary, "U1", "pre_event") = RowsAt(AfterFailedPreview("U1"), "U1", "pre_event")
    /\ HandedOrder("r1") = <<"U2">>
    /\ pc["r1"] = "returned"
    /\ tally["r1"].success = 1 /\ tally["r1"].failed = 0


\* the run is a process_event call made with dry_run=True
DryRun(r) == job[r].dry_run

\* C36: a process_event call made with dry_run=True performs no search, page
\* fetch, writer or editor invocation and no step of it changes the
\* commentary table, whether or not its event can be resolved.
C36_DryRunChangesNothing ==
    [][\A r \in Runs :
          (DryRun(r) /\ StepOf(r)) =>
              /\ commentary' = commentary
              /\ obs'[r].searched = <<>> /\ obs'[r].scrapes = 0
              /\ obs'[r].writer_calls = 0
              /\ obs'[r].verifier_calls = 0 /\ obs'[r].prose_calls = 0]_vars


\* the step in which process_event call r returns ok
Returns(r, ok) ==
    pc[r] \in InFlight /\ pc'[r] = "returned" /\ obs'[r].ret = ok

\* C37: when a process_event call that is not a dry run returns True, the
\* record of its (event, type) key exists with status proofed and non-null
\* content and proofed_content; when it returns False, the record of its key
\* exists with status failed.
C37_OutcomeMatchesRecord ==
    [][\A r \in Runs :
          ~DryRun(r) =>
              /\ Returns(r, "True") =>
                    /\ Select(commentary', job[r].evt, job[r].ctype) # {}
                    /\ LET row == Row(commentary', job[r].evt, job[r].ctype)
                       IN /\ row.status = "proofed"
                          /\ row.content # NULL
                          /\ row.proofed_content # NULL
              /\ Returns(r, "False") =>
                    /\ Select(commentary', job[r].evt, job[r].ctype) # {}
                    /\ Row(commentary', job[r].evt, job[r].ctype).status = "failed"]_vars


\* the statuses the orchestrators and the Scheduler write
PipelineStatuses == {"scraping", "writing", "proofed", "failed"}

\* the rows of the table that the step has inserted or whose status it has set
StatusWritten ==
    {i \in 1..Len(commentary') : i > Len(commentary) \/ commentary'[i].status # commentary[i].status}

\* the step is taken by an orchestrator or a Scheduler batch
PipelineStep == \E r \in Runs : pc'[r] # pc[r] \/ obs'[r] # obs[r]

\* C38: every status an orchestrator or the Scheduler gives a commentary
\* record, by insert or by update, is scraping, writing, proofed or failed;
\* none is pending, analyzing or published.
C38_PipelineStatuses ==
    [][PipelineStep =>
          /\ \A i \in StatusWritten : commentary'[i].status \in PipelineStatuses
          /\ \A r \in Runs : Range(obs'[r].writes) \subseteq PipelineStatuses]_vars

\* the pipeline has left one record proofed and another failed
C38_Witness ==
    /\ \E i \in 1..Len(commentary) : commentary[i].status = "proofed"
    /\ \E i \in 1..Len(commentary) : commentary[i].status = "failed"
    /\ obs["r1"].writes = <<"scraping", "writing", "failed">>


\* C39: a record whose status is scraping, writing or proofed carries no
\* error_message: the reason of an earlier failure is gone once a retry has
\* moved the record forward.
C39_NoStaleErrorMessage ==
    \A i \in 1..Len(commentary) :
        commentary[i].status \in {"scraping", "writing", "proofed"}
            => commentary[i].error_message = NullMsg


-----------------------------------------------------------------------------
(* Two status writes followed statement by statement.  Each call has its own *)
(* connection: its SELECT reads what is committed, its INSERT or UPDATE is   *)
(* committed by the conn.commit() that follows it.                           *)

WriteKeys == {<<"E1", "post_event">>, <<"E1", "pre_event">>}
WriteArguments == {<<"scraping", NullMsg>>, <<"failed", Msg("Writer LLM call failed", 22)>>}

\* update_commentary_status / update_status called: the SELECT is sent
WriteEntered(key, arguments) ==
    [pc |-> "select", event_unit_code |-> key[1], commentary_type |-> key[2],
     status |-> arguments[1], error_message |-> arguments[2], existing |-> FALSE]

InitWrite ==
    /\ commentary \in {<<>>, update_commentary_status(<<>>, "E1", "writing", NullMsg, "post_event")}
    /\ pc = [r \in Runs |-> "idle"]
    /\ job = [r \in Runs |-> NoJob]
    /\ loc = [r \in Runs |-> NoLoc]
    /\ obs = [r \in Runs |-> NoObs]
    /\ tally = [r \in Runs |-> NoTally]
    /\ invocations = 0
    /\ scraper = NoScrape
    /\ resolver = NoResolve
    /\ editor = NoEdit
    /\ schedule = BaseSchedule
    /\ writes \in [Runs -> {WriteEntered(k, a) : k \in WriteKeys, a \in WriteArguments}]

\* existing = cur.fetchone()
Selected(r) ==
    /\ writes[r].pc = "select"
    /\ writes' = [writes EXCEPT
          ![r].pc = "write",
          ![r].existing = Select(commentary, writes[r].event_unit_code,
                                 writes[r].commentary_type) # {}]
    /\ UNCHANGED commentary

\* the UPDATE or INSERT chosen by `if existing:`, and conn.commit()
Written(r) ==
    /\ writes[r].pc = "write"
    /\ LET w == writes[r]
       IN commentary' =
             IF w.existing
             THEN IF Truthy(w.error_message)
                  THEN Update(commentary, w.event_unit_code, w.commentary_type,
                              [status |-> w.status, error_message |-> w.error_message])
                  ELSE Update(commentary, w.event_unit_code, w.commentary_type,
                              [status |-> w.status])
             ELSE Append(commentary, NewRow(w.event_unit_code, w.commentary_type, w.status))
    /\ writes' = [writes EXCEPT ![r].pc = "done"]

NextWrite ==
    /\ \E r \in Runs : Selected(r) \/ Written(r)
    /\ UNCHANGED <<pc, job, loc, obs, tally, invocations, scraper, resolver, editor, schedule>>

SpecWrite == InitWrite /\ [][NextWrite]_vars

\* C40: when status writes for the same key run concurrently, each doing
\* its SELECT before the other's INSERT is committed, the table ends with
\* exactly one row for that key.
C40_OneRowUnderInterleaving ==
    \A r \in Runs :
        writes[r].pc = "done" =>
            Cardinality(Select(commentary, writes[r].event_unit_code,
                               writes[r].commentary_type)) = 1

====
